---- MODULE Spec2Model ----
(***************************************************************************)
(* Model of the content-ingestion pipeline of fr_stock_backend:            *)
(*   - the proxy manager (utils/proxyManager: proxy list, rotation cursor, *)
(*     per-proxy health with cooldown),                                    *)
(*   - the outbound Reddit calls of services/redditService.js, which take  *)
(*     a proxy from the manager and demote it on a proxy-classified error, *)
(*   - the freshness rule shouldScrapePost and the sweep that applies it,  *)
(*   - extractAllComments, which flattens the reply forest of a post,      *)
(*   - scrapeSinglePost and the loops that call it, with the tables        *)
(*     reddit_posts, reddit_posts_content and reddit_comments,             *)
(*   - calcSentiment (services/sentimentService.js), which scores the      *)
(*     stored comments.                                                    *)
(* Times are milliseconds relative to an arbitrary origin (Date.now()).    *)
(***************************************************************************)
EXTENDS Integers, Sequences, FiniteSets, TLC

VARIABLES
    proxyList,      \* proxyManager: let proxyList = []
    currentIndex,   \* proxyManager: let currentIndex = 0 (0-based cursor)
    proxyHealth,    \* proxyManager: let proxyHealth = {}
    validating,     \* position of validateAllProxies' loop (0: not running)
    initialized,    \* initializeProxies has been called
    now,            \* Date.now()
    lastNext,       \* what the last getNextProxyAgent() call returned
    rotation,       \* list positions returned by the latest consecutive
                    \* getNextProxyAgent() calls made with every proxy available
    calls,          \* outbound Reddit calls in flight, with the proxy each holds
    lastOutcome,    \* how the last finished outbound call ended
    postTime,       \* reddit_posts.postTime of each post
    scrapedAt,      \* reddit_posts.scrapedAt of each post (Null: never scraped)
    postsToScrape,  \* scrapeRedditPostContent: the due posts still to process
    lastFilter,     \* when the sweep last filtered the posts, and which were due
    commentsData,   \* scrapeSinglePost: the reply forest of the fetched post
    allComments,    \* scrapeSinglePost: what extractAllComments returned
    redditComments, \* the rows of table reddit_comments, in insertion order
    postContent,    \* reddit_posts_content.scrapedAt of each post (Null: no row)
    scrapes,        \* the scrape loops in progress, with scrapeSinglePost's locals
    attempted,      \* posts the sweep has called scrapeSinglePost on since it
                    \* last filtered the posts
    commentLog,     \* the comment the persist loop handled last, and whether
                    \* it was written
    persisted,      \* per comment name, the body and score last written
    scoring,        \* calcSentiment: its loop over the comments not yet scored
    scoreLog,       \* the comments calcSentiment read, those it attempted and
                    \* those whose scoring call failed, since it last started
    isRunning,      \* jobs: let isRunning = false, the lock flag of each job
    invocations,    \* per job, the cron callbacks that are executing, each
                    \* with the await it is at and the items it has left
    cronLog,        \* the job whose schedule fired last, and whether that
                    \* callback returned at the lock check
    job,            \* jobs: let job = null, per job whether it holds a
                    \* schedule that has not been stopped
    logging,        \* apiLogger: the withLogging call in progress or returned
    logTasks,       \* apiLogger: the logApiRequest calls not yet settled
    serviceIdCache, \* apiLogger: the services whose id is cached
    externalApiLog, \* the rows of table external_api_logs
    stocks,         \* the number of rows of table stocks holding the ticker
    discoveries,    \* the discovery operations in progress, each with the
                    \* await it is at and its locals
    procedure,      \* the scoring procedure of the prompt on one comment: the
                    \* step reached and the value it has come to
    manual          \* scripts/runSentimentAnalysis.js: the loop of the
                    \* calcSentiment call of a run of the script

poolVars == <<proxyList, currentIndex, proxyHealth, validating, initialized,
              lastNext, rotation>>
fetchVars == <<calls, lastOutcome>>
freshVars == <<postTime, scrapedAt, postsToScrape, lastFilter>>
treeVars == <<commentsData, allComments>>
storeVars == <<redditComments, postContent>>
scrapeVars == <<scrapes, attempted, commentLog, persisted>>
scoreVars == <<scoring, scoreLog>>
ingestVars == <<treeVars, storeVars, scrapeVars, scoreVars>>
jobVars == <<isRunning, invocations, cronLog, job>>
logVars == <<logging, logTasks, serviceIdCache, externalApiLog>>
discoverVars == <<stocks, discoveries>>
promptVars == <<procedure>>
scriptVars == <<manual>>
laterVars == <<jobVars, logVars, discoverVars, promptVars, scriptVars>>
nonJobVars == <<poolVars, fetchVars, freshVars, now, ingestVars, logVars,
                discoverVars, promptVars, scriptVars>>
nonLogVars == <<poolVars, fetchVars, freshVars, now, ingestVars, jobVars,
                discoverVars, promptVars, scriptVars>>
vars == <<proxyList, currentIndex, proxyHealth, validating, initialized, now,
          lastNext, rotation, calls, lastOutcome, postTime, scrapedAt,
          postsToScrape, lastFilter, commentsData, allComments,
          redditComments, postContent, scrapes, attempted, commentLog,
          persisted, scoring, scoreLog, isRunning, invocations, cronLog, job,
          logging, logTasks, serviceIdCache, externalApiLog, stocks,
          discoveries, procedure, manual>>

----------------------------------------------------------------------------
(* Bounds of the model:                                                     *)
(*   MaxProxies    entries in the proxy list                                 *)
(*   MaxCooldowns  whole cooldown durations the clock of Spec may pass       *)
(*   MaxJitter     milliseconds the clock of Spec may be past a multiple of  *)
(*                 the cooldown duration                                     *)
(*   MaxCalls      outbound calls that may be in flight together             *)
(*   MaxWindows    cooldown windows the clock of SpecFetch may pass          *)
(*   MaxPosts      stored posts                                              *)
(*   MaxNodes      nodes in the reply forest of a fetched post               *)
(*   MaxClock      milliseconds the clock of SpecScrape may pass             *)
(*   MaxDue        posts that SpecScrape discovers and scrapes               *)
(*   MaxComments   stored comments that SpecScore scores                     *)
(*   MaxOverlap    callbacks of one job that may be executing together       *)
(*   MaxWork       items one sweep of SpecJobs processes                     *)
(*   MaxLogs       log entries that SpecLog has pending or stored            *)
(*   MaxStored     stored comments that SpecBatch starts with                *)
(*   MaxLatency    milliseconds after a trigger within which SpecCadence    *)
(*                 lets the sweep read, request and write                   *)
(*   MaxTriggers   triggers of the schedule that SpecCadence follows         *)
(*   MaxDiscoveries discovery operations that may run together               *)
(*   MaxOccurrences occurrences of bullish, and of bearish, keywords in the  *)
(*                 comment given to the scoring procedure                    *)

MaxProxies == 2
MaxCooldowns == 2
MaxJitter == 1
MaxCalls == 1
MaxWindows == 1
MaxPosts == 1
MaxNodes == 3
MaxClock == 1
MaxDue == 2
MaxComments == 2
MaxOverlap == 2
MaxWork == 2
MaxLogs == 2
MaxStored == 21
MaxLatency == 2
MaxTriggers == 4
MaxDiscoveries == 2
MaxOccurrences == 6

----------------------------------------------------------------------------
(* Program constants *)

COOLDOWN_MS == 5 * 60 * 1000

Null == -1

Proxies == 1..MaxProxies

\* proxyHealth[proxyUrl] === undefined
NoHealth == [known |-> FALSE, healthy |-> FALSE, lastFailure |-> Null]

\* { healthy: true, lastFailure: null }
HealthyRecord == [known |-> TRUE, healthy |-> TRUE, lastFailure |-> Null]

\* { healthy: false, lastFailure: Date.now() }
FailedRecord(t) == [known |-> TRUE, healthy |-> FALSE, lastFailure |-> t]

\* getNextProxyAgent() has not been called yet
NoNext == [called |-> FALSE, proxy |-> 0, fallback |-> FALSE]

----------------------------------------------------------------------------
(* utils/proxyManager *)

isProxyAvailable_NonStrict(proxyUrl) ==
    LET health == proxyHealth[proxyUrl]
    IN  IF ~health.known THEN TRUE
        ELSE IF health.healthy THEN TRUE
        ELSE now - health.lastFailure >= COOLDOWN_MS

isProxyAvailable_Always(proxyUrl) == TRUE

isProxyAvailable_HealthyOnly(proxyUrl) ==
    LET health == proxyHealth[proxyUrl]
    IN  IF ~health.known THEN TRUE
        ELSE health.healthy

isProxyAvailable(proxyUrl) ==
    LET health == proxyHealth[proxyUrl]
    IN  IF ~health.known THEN TRUE
        ELSE IF health.healthy THEN TRUE
        ELSE now - health.lastFailure > COOLDOWN_MS

\* The for loop of getNextProxyAgent from iteration i with the cursor at cur,
\* and the fallback after it: the proxy returned (0: null), the cursor left
\* behind, and whether the fallback return was taken.
RECURSIVE ScanProxies_FallbackAtCursor(_, _)
ScanProxies_FallbackAtCursor(i, cur) ==
    IF Len(proxyList) = 0
    THEN [proxy |-> 0, currentIndex |-> cur, fallback |-> FALSE]
    ELSE IF i >= Len(proxyList)
    THEN [proxy |-> proxyList[cur + 1], currentIndex |-> cur, fallback |-> TRUE]
    ELSE LET proxy == proxyList[cur + 1]
             next == (cur + 1) % Len(proxyList)
         IN  IF isProxyAvailable(proxy)
             THEN [proxy |-> proxy, currentIndex |-> next, fallback |-> FALSE]
             ELSE ScanProxies_FallbackAtCursor(i + 1, next)

RECURSIVE ScanProxies_CursorNotAdvanced(_, _)
ScanProxies_CursorNotAdvanced(i, cur) ==
    IF Len(proxyList) = 0
    THEN [proxy |-> 0, currentIndex |-> cur, fallback |-> FALSE]
    ELSE IF i >= Len(proxyList)
    THEN [proxy |-> proxyList[1], currentIndex |-> cur, fallback |-> TRUE]
    ELSE LET proxy == proxyList[cur + 1]
             next == (cur + 1) % Len(proxyList)
         IN  IF isProxyAvailable(proxy)
             THEN [proxy |-> proxy, currentIndex |-> cur, fallback |-> FALSE]
             ELSE ScanProxies_CursorNotAdvanced(i + 1, next)

RECURSIVE ScanProxies(_, _)
ScanProxies(i, cur) ==
    IF Len(proxyList) = 0
    THEN [proxy |-> 0, currentIndex |-> cur, fallback |-> FALSE]
    ELSE IF i >= Len(proxyList)
    THEN [proxy |-> proxyList[1], currentIndex |-> cur, fallback |-> TRUE]
    ELSE LET proxy == proxyList[cur + 1]
             next == (cur + 1) % Len(proxyList)
         IN  IF isProxyAvailable(proxy)
             THEN [proxy |-> proxy, currentIndex |-> next, fallback |-> FALSE]
             ELSE ScanProxies(i + 1, next)

AllAvailable == \A i \in 1..Len(proxyList) : isProxyAvailable(proxyList[i])

\* The list position (1-based) of the entry a scan from cursor cur returned.
ReturnedPosition(cur, scan) ==
    IF scan.fallback THEN 1
    ELSE ((scan.currentIndex + Len(proxyList) - 1) % Len(proxyList)) + 1

\* The effect of a getNextProxyAgent() call on the proxy manager's state.
NextProxyAgent(scan) ==
    /\ currentIndex' = scan.currentIndex
    /\ UNCHANGED <<proxyList, proxyHealth, validating, initialized>>

\* getNextProxyAgent() called on its own; lastNext and rotation record what
\* such calls returned.
getNextProxyAgent ==
    LET scan == ScanProxies(0, currentIndex)
    IN  /\ NextProxyAgent(scan)
        /\ lastNext' = [called |-> TRUE, proxy |-> scan.proxy,
                        fallback |-> scan.fallback]
        /\ rotation' =
              IF Len(proxyList) > 0 /\ AllAvailable
              THEN LET r == Append(rotation, ReturnedPosition(currentIndex, scan))
                   IN  IF Len(r) > Len(proxyList) THEN Tail(r) ELSE r
              ELSE <<>>
        /\ UNCHANGED <<now, fetchVars, freshVars, ingestVars, laterVars>>

getNextProxy_NoWrap ==
    /\ Len(proxyList) > 0
    /\ currentIndex' = currentIndex + 1
    /\ rotation' = <<>>
    /\ UNCHANGED <<proxyList, proxyHealth, validating, initialized, lastNext,
                   now, fetchVars, freshVars, ingestVars, laterVars>>

getNextProxy ==
    /\ Len(proxyList) > 0
    /\ currentIndex' = (currentIndex + 1) % Len(proxyList)
    /\ rotation' = <<>>
    /\ UNCHANGED <<proxyList, proxyHealth, validating, initialized, lastNext,
                   now, fetchVars, freshVars, ingestVars, laterVars>>

MarkedFailed_AtCursor(proxyUrl) ==
    IF Len(proxyList) = 0 THEN proxyHealth
    ELSE [proxyHealth EXCEPT ![proxyList[currentIndex + 1]] = FailedRecord(now)]

\* proxyHealth after markProxyFailed(proxyUrl)
MarkedFailed(proxyUrl) ==
    [proxyHealth EXCEPT ![proxyUrl] = FailedRecord(now)]

markProxyFailed(proxyUrl) ==
    /\ proxyUrl \in Proxies
    /\ proxyHealth' = MarkedFailed(proxyUrl)
    /\ UNCHANGED <<proxyList, currentIndex, validating, initialized, lastNext,
                   rotation, now, fetchVars, freshVars, ingestVars, laterVars>>

\* initializeProxies with n well-formed entries in WEBSHARE_PROXY_LIST, up to
\* the call of validateAllProxies.
initializeProxies(n) ==
    /\ ~initialized
    /\ initialized' = TRUE
    /\ proxyList' = [i \in 1..n |-> i]
    /\ validating' = IF n > 0 THEN 1 ELSE 0
    /\ UNCHANGED <<currentIndex, proxyHealth, lastNext, rotation, now, fetchVars,
                   freshVars, ingestVars, laterVars>>

\* initializeProxies called again in the same process: WEBSHARE_PROXY_LIST
\* is what it was, so the list is rebuilt with the entries it had, and
\* currentIndex and proxyHealth are not reset; validateAllProxies starts over.
initializeProxiesAgain ==
    /\ initialized
    /\ proxyList' = [i \in 1..Len(proxyList) |-> i]
    /\ validating' = IF Len(proxyList) > 0 THEN 1 ELSE 0
    /\ UNCHANGED <<currentIndex, proxyHealth, initialized, lastNext, rotation,
                   now, fetchVars, freshVars, ingestVars, laterVars>>

\* One iteration of validateAllProxies: validateProxy(proxyList[i]) ends with
\* the probe answered 2xx (ok) or not.
validateProxy(ok) ==
    /\ validating \in 1..Len(proxyList)
    /\ proxyHealth' = [proxyHealth EXCEPT ![proxyList[validating]] =
                          IF ok THEN HealthyRecord ELSE FailedRecord(now)]
    /\ validating' = IF validating = Len(proxyList) THEN 0 ELSE validating + 1
    /\ UNCHANGED <<proxyList, currentIndex, initialized, lastNext, rotation,
                   now, fetchVars, freshVars, ingestVars, laterVars>>

\* Date.now() advances by d ms; the instants followed are those at most
\* MaxJitter ms past a multiple of the cooldown duration.
Tick(d) ==
    /\ (now + d) \div COOLDOWN_MS <= MaxCooldowns
    /\ (now + d) % COOLDOWN_MS <= MaxJitter
    /\ now' = now + d
    /\ UNCHANGED <<poolVars, fetchVars, freshVars, ingestVars, laterVars>>

TickSteps == {1, COOLDOWN_MS}

\* Date.now() advances past one whole cooldown window.
TickWindow ==
    /\ now < MaxWindows * (COOLDOWN_MS + 1)
    /\ now' = now + COOLDOWN_MS + 1
    /\ UNCHANGED <<poolVars, fetchVars, freshVars, ingestVars, laterVars>>

----------------------------------------------------------------------------
(* services/redditService.js: outbound calls through the proxy manager *)

ProxyErrorCodes ==
    {"ECONNREFUSED", "ECONNRESET", "ETIMEDOUT", "ENOTFOUND", "ENETUNREACH",
     "EHOSTUNREACH", "EPROTO", "EPIPE", "ERR_SOCKET_CLOSED"}

\* The errors an outbound call can end with: error.code ("" when the error
\* has none) and error.response.status (0 when there is no response).
\*   a connection-level failure: a code and no response;
\*   an HTTP error status answered through the proxy: axios' code for it;
\*   an exception without code or response (unexpected shape, storage).
NetworkErrors ==
    [code : ProxyErrorCodes \cup {"ECONNABORTED"}, status : {0}]

HttpErrors ==
    [code : {"ERR_BAD_REQUEST"}, status : {403, 407, 429}]
        \cup [code : {"ERR_BAD_RESPONSE"}, status : {500}]

OtherErrors == [code : {""}, status : {0}]

Errors == NetworkErrors \cup HttpErrors \cup OtherErrors

isProxyError_AnyHttpError(error) ==
    \/ error.code # "" /\ error.code \in ProxyErrorCodes
    \/ error.status # 0

isProxyError(error) ==
    IF error.code # "" /\ error.code \in ProxyErrorCodes THEN TRUE
    ELSE IF error.status = 407 THEN TRUE
    ELSE FALSE

NoOutcome == [kind |-> "none", code |-> "", status |-> 0]

\* scrapeSinglePost, searchRedditStock and scrapeSubredditPosts up to their
\* await of the request: a proxy is taken from the manager (0: direct).
CallBegin(c) ==
    /\ calls[c].phase = "idle"
    /\ LET scan == ScanProxies(0, currentIndex)
       IN  /\ NextProxyAgent(scan)
           /\ calls' = [calls EXCEPT ![c] = [phase |-> "inflight", proxy |-> scan.proxy]]
    /\ UNCHANGED <<lastNext, rotation, now, lastOutcome, freshVars,
                   ingestVars, laterVars>>

\* The awaited request and the rest of the try block end without an error.
CallSucceeds(c) ==
    /\ calls[c].phase = "inflight"
    /\ calls' = [calls EXCEPT ![c] = [phase |-> "idle", proxy |-> 0]]
    /\ lastOutcome' = [kind |-> "ok", code |-> "", status |-> 0]
    /\ UNCHANGED <<poolVars, now, freshVars, ingestVars, laterVars>>

\* The try block throws error: the catch block runs
\*   if (proxyUrl && isProxyError(error)) markProxyFailed(proxyUrl)
\* and then hands the failure to the caller.
CallFails(c, error) ==
    /\ calls[c].phase = "inflight"
    /\ LET proxyUrl == calls[c].proxy
       IN  /\ proxyHealth' = IF proxyUrl # 0 /\ isProxyError(error)
                             THEN MarkedFailed(proxyUrl)
                             ELSE proxyHealth
           /\ lastOutcome' = [kind |-> "error", code |-> error.code,
                              status |-> error.status]
    /\ calls' = [calls EXCEPT ![c] = [phase |-> "idle", proxy |-> 0]]
    /\ UNCHANGED <<proxyList, currentIndex, validating, initialized, lastNext,
                   rotation, now, freshVars, ingestVars, laterVars>>

----------------------------------------------------------------------------
(* config/redditScraper.js *)

MS_PER_SECOND == 1000
MS_PER_MINUTE == 60 * MS_PER_SECOND
MS_PER_HOUR == 60 * MS_PER_MINUTE
MS_PER_DAY == 24 * MS_PER_HOUR

SCRAPE_INTERVALS_TwoRules ==
    << [maxAgeMs |-> MS_PER_DAY,     intervalMs |-> 10 * MS_PER_MINUTE],
       [maxAgeMs |-> 3 * MS_PER_DAY, intervalMs |-> MS_PER_HOUR] >>

SCRAPE_INTERVALS ==
    << [maxAgeMs |-> MS_PER_DAY,     intervalMs |-> 10 * MS_PER_MINUTE],
       [maxAgeMs |-> 3 * MS_PER_DAY, intervalMs |-> MS_PER_HOUR],
       [maxAgeMs |-> 7 * MS_PER_DAY, intervalMs |-> MS_PER_DAY] >>

MAX_POST_AGE_MS == 7 * MS_PER_DAY

----------------------------------------------------------------------------
(* services/redditService.js: the freshness rule and the sweep *)

Posts == 1..MaxPosts

\* The post object the sweep reads from the store.
Post(p) == [postTime |-> postTime[p], scrapedAt |-> scrapedAt[p]]

\* SCRAPE_INTERVALS.find(r => postAge < r.maxAgeMs): the index of the first
\* matching rule, 0 for undefined.
FindRule_Inclusive(postAge) ==
    LET matching == {i \in 1..Len(SCRAPE_INTERVALS) :
                        postAge <= SCRAPE_INTERVALS[i].maxAgeMs}
    IN  IF matching = {} THEN 0
        ELSE CHOOSE i \in matching : \A j \in matching : i <= j

FindRule(postAge) ==
    LET matching == {i \in 1..Len(SCRAPE_INTERVALS) :
                        postAge < SCRAPE_INTERVALS[i].maxAgeMs}
    IN  IF matching = {} THEN 0
        ELSE CHOOSE i \in matching : \A j \in matching : i <= j

shouldScrapePost_NoCutoff(post) ==
    LET postAge == now - post.postTime
        rule == FindRule(postAge)
    IN  IF post.scrapedAt = Null THEN TRUE
        ELSE IF rule = 0 THEN FALSE
        ELSE now - post.scrapedAt >= SCRAPE_INTERVALS[rule].intervalMs

shouldScrapePost_NullNotDue(post) ==
    LET postAge == now - post.postTime
        rule == FindRule(postAge)
    IN  IF postAge >= MAX_POST_AGE_MS THEN FALSE
        ELSE IF post.scrapedAt = Null THEN FALSE
        ELSE IF rule = 0 THEN FALSE
        ELSE now - post.scrapedAt >= SCRAPE_INTERVALS[rule].intervalMs

shouldScrapePost_Inverted(post) ==
    LET postAge == now - post.postTime
        rule == FindRule(postAge)
    IN  IF postAge >= MAX_POST_AGE_MS THEN FALSE
        ELSE IF post.scrapedAt = Null THEN TRUE
        ELSE IF rule = 0 THEN FALSE
        ELSE now - post.scrapedAt <= SCRAPE_INTERVALS[rule].intervalMs

shouldScrapePost(post) ==
    LET postAge == now - post.postTime
        rule == FindRule(postAge)
    IN  IF postAge >= MAX_POST_AGE_MS THEN FALSE
        ELSE IF post.scrapedAt = Null THEN TRUE
        ELSE IF rule = 0 THEN FALSE
        ELSE now - post.scrapedAt >= SCRAPE_INTERVALS[rule].intervalMs

\* allPosts.filter(shouldScrapePost), in the order the store lists the posts;
\* a post with postTime Null has no row.
DuePosts ==
    {p \in DOMAIN postTime : postTime[p] # Null /\ shouldScrapePost(Post(p))}

InOrder(S) == SelectSeq([i \in 1..Len(postTime) |-> i], LAMBDA p : p \in S)

\* scrapeRedditPostContent up to its loop: the posts are read and filtered.
SweepStart ==
    /\ postsToScrape = <<>>
    /\ postsToScrape' = InOrder(DuePosts)
    /\ lastFilter' = [at |-> now, due |-> DuePosts]
    /\ UNCHANGED <<poolVars, fetchVars, now, postTime, scrapedAt, ingestVars,
                   laterVars>>

\* One iteration of the sweep's loop: scrapeSinglePost on the next due post
\* returns true, having set the post's scrapedAt, or returns false.
SweepScrape(ok) ==
    /\ postsToScrape # <<>>
    /\ scrapedAt' = IF ok THEN [scrapedAt EXCEPT ![Head(postsToScrape)] = now]
                    ELSE scrapedAt
    /\ postsToScrape' = Tail(postsToScrape)
    /\ UNCHANGED <<poolVars, fetchVars, now, postTime, lastFilter,
                   ingestVars, laterVars>>

\* The instants at which the posts are looked at: around every age ceiling
\* and every interval after a scrape.
Instants ==
    LET TenMin == 10 * MS_PER_MINUTE
    IN  {0, 1, TenMin - 1, TenMin, MS_PER_HOUR - 1, MS_PER_HOUR,
         MS_PER_DAY - TenMin - 1, MS_PER_DAY - 1, MS_PER_DAY, MS_PER_DAY + 1,
         MS_PER_DAY + MS_PER_HOUR - 1, MS_PER_DAY + MS_PER_HOUR,
         3 * MS_PER_DAY - MS_PER_HOUR - 1, 3 * MS_PER_DAY - 1, 3 * MS_PER_DAY,
         4 * MS_PER_DAY - 1, 4 * MS_PER_DAY,
         7 * MS_PER_DAY - 1, 7 * MS_PER_DAY, 7 * MS_PER_DAY + 1}

\* Date.now() advances to a later instant.
AdvanceClock(t) ==
    /\ t > now
    /\ now' = t
    /\ UNCHANGED <<poolVars, fetchVars, freshVars, ingestVars, laterVars>>

----------------------------------------------------------------------------
(* services/redditService.js: the reply forest of a fetched post and        *)
(* extractAllComments.  A forest of n nodes is held as                      *)
(*   parent[x]   the node whose reply listing holds x (0: the top listing), *)
(*   order       the order in which the source presents the nodes, the      *)
(*               children of a listing being its members in that order,     *)
(*   kind[x]     child.kind ("t1": comment, "more": a 'load more' stub),    *)
(*   replies[x]  child.data.replies: "listing" (an object with             *)
(*               data.children), "empty" (the empty string) or "missing",   *)
(*   score[x], body[x]   child.data.score and child.data.body,             *)
(*   absent[x]   the fields among "score" and "body" that child.data lacks. *)
(* The name of a comment (child.data.name) is its node number; the name of  *)
(* the post is PostName.  Names are non-empty strings in the source.        *)

PostName == 0

Ident(n) == [i \in 1..n |-> i]
Reversed(n) == [i \in 1..n |-> n + 1 - i]

\* The number of listings above node x, -1 if x hangs below itself.
RECURSIVE LevelIn(_, _, _)
LevelIn(parent, x, fuel) ==
    IF parent[x] = 0 THEN 0
    ELSE IF fuel = 0 THEN -1
    ELSE LET up == LevelIn(parent, parent[x], fuel - 1)
         IN  IF up = -1 THEN -1 ELSE up + 1

\* parent, kind and replies describe a forest: no node hangs below itself,
\* only a comment with a reply listing has children, and a stub carries no
\* replies field.
IsForest(n, parent, kind, replies) ==
    /\ \A x \in 1..n : LevelIn(parent, x, n) # -1
    /\ \A x \in 1..n :
          parent[x] # 0 =>
              kind[parent[x]] = "t1" /\ replies[parent[x]] = "listing"
    /\ \A x \in 1..n : kind[x] = "more" => replies[x] = "missing"

Forest(parent, order, kind, replies, score, body, absent) ==
    [parent |-> parent, order |-> order, kind |-> kind, replies |-> replies,
     score |-> score, body |-> body, absent |-> absent]

NoForest == Forest(<<>>, <<>>, <<>>, <<>>, <<>>, <<>>, <<>>)

NotExtracted == [called |-> FALSE, comments |-> <<>>]

\* One element of a children array: child.kind and child.data, the replies
\* field being a listing with its own children array, the empty string, or
\* missing.
Child(kind, name, score, body, absent, replies, children) ==
    [kind |-> kind,
     data |-> [name |-> name, score |-> score, body |-> body,
               absent |-> absent,
               replies |-> [is |-> replies, children |-> children]]]

\* The children array of listing c of the forest, in the order of the
\* source, as the response presents it: every child with its own replies.
RECURSIVE ChildrenOf(_)
ChildrenOf(c) ==
    LET members == SelectSeq(commentsData.order,
                             LAMBDA x : commentsData.parent[x] = c)
    IN  [i \in 1..Len(members) |->
            LET x == members[i]
            IN  Child(commentsData.kind[x], x, commentsData.score[x],
                      commentsData.body[x], commentsData.absent[x],
                      commentsData.replies[x],
                      IF commentsData.replies[x] = "listing"
                      THEN ChildrenOf(x) ELSE <<>>)]

\* The record pushed for a comment.
CommentRecord(commentData, postId, parentId, depth) ==
    [comment_id |-> commentData.name,
     post_id    |-> postId,
     parent_id  |-> IF parentId = Null THEN postId ELSE parentId,
     body       |-> IF "body" \in commentData.absent THEN <<>>
                    ELSE commentData.body,
     score      |-> IF "score" \in commentData.absent THEN 0
                    ELSE commentData.score,
     depth      |-> depth]

RECURSIVE extractAllComments_DepthNotIncremented(_, _, _, _)
extractAllComments_DepthNotIncremented(children, postId, parentId, depth) ==
    IF children = <<>> THEN <<>>
    ELSE LET child == Head(children)
             rest == extractAllComments_DepthNotIncremented(
                         Tail(children), postId, parentId, depth)
         IN  IF child.kind = "t1"
             THEN <<CommentRecord(child.data, postId, parentId, depth)>>
                  \o (IF child.data.replies.is = "listing"
                      THEN extractAllComments_DepthNotIncremented(
                               child.data.replies.children, postId,
                               child.data.name, depth)
                      ELSE <<>>)
                  \o rest
             ELSE rest

RECURSIVE extractAllComments_RepliesAfterSiblings(_, _, _, _)
extractAllComments_RepliesAfterSiblings(children, postId, parentId, depth) ==
    IF children = <<>> THEN <<>>
    ELSE LET child == Head(children)
             rest == extractAllComments_RepliesAfterSiblings(
                         Tail(children), postId, parentId, depth)
         IN  IF child.kind = "t1"
             THEN <<CommentRecord(child.data, postId, parentId, depth)>>
                  \o rest
                  \o (IF child.data.replies.is = "listing"
                      THEN extractAllComments_RepliesAfterSiblings(
                               child.data.replies.children, postId,
                               child.data.name, depth + 1)
                      ELSE <<>>)
             ELSE rest

\* extractAllComments(children, postId, parentId = null, depth = 0): the loop
\* over children, as the record of the first child, the records of its
\* replies, and the records of the children after it.
RECURSIVE extractAllComments(_, _, _, _)
extractAllComments(children, postId, parentId, depth) ==
    IF children = <<>> THEN <<>>
    ELSE LET child == Head(children)
             rest == extractAllComments(Tail(children), postId, parentId, depth)
         IN  IF child.kind = "t1"
             THEN <<CommentRecord(child.data, postId, parentId, depth)>>
                  \o (IF child.data.replies.is = "listing"
                      THEN extractAllComments(
                               child.data.replies.children, postId,
                               child.data.name, depth + 1)
                      ELSE <<>>)
                  \o rest
             ELSE rest

\* const allComments = extractAllComments(commentsData, postData.post_id)
ExtractComments ==
    /\ ~allComments.called
    /\ allComments' =
          [called |-> TRUE,
           comments |-> extractAllComments(ChildrenOf(0), PostName, Null, 0)]
    /\ UNCHANGED <<poolVars, fetchVars, freshVars, now, commentsData,
                   storeVars, scrapeVars,
                   scoreVars, laterVars>>

----------------------------------------------------------------------------
(* services/redditService.js: scrapeSinglePost, the loops that call it, and *)
(* the tables it writes.  A loop is followed from await to await:           *)
(*   "next"      about to call scrapeSinglePost on the first post queued,   *)
(*   "fetching"  awaiting the response of Reddit,                           *)
(*   "content"   awaiting the upsert of reddit_posts_content,               *)
(*   "comments"  in the loop over allComments, then awaiting the update of  *)
(*               reddit_posts.                                              *)

Tasks == {"sweep", "byIds"}

ScrapePosts == 1..MaxDue

NoScrape ==
    [pc |-> "idle", queue |-> <<>>, proxyUrl |-> 0, now |-> Null,
     allComments |-> <<>>]

NoCommentLog ==
    [seen |-> FALSE, name |-> 0, score |-> 0, body |-> <<>>,
     written |-> FALSE, failed |-> FALSE]

\* No write yet; before is the body of the write preceding the last one.
NeverPersisted ==
    [written |-> FALSE, body |-> <<>>, score |-> 0, before |-> <<>>]

NoSentiment == [set |-> FALSE, value |-> 0]

\* A body of n characters.
Body(ch, n) == [i \in 1..n |-> ch]

CommentSamples ==
    { [score |-> 1,  body |-> Body("a", 50), absent |-> {}],
      [score |-> 2,  body |-> Body("a", 9),  absent |-> {}],
      [score |-> -2, body |-> Body("a", 10), absent |-> {}],
      [score |-> 2,  body |-> Body("b", 10), absent |-> {}],
      [score |-> 0,  body |-> Body("b", 10), absent |-> {"score"}] }

\* The children arrays a response for post p may hold: one top-level
\* comment, named after the post, or none.
Responses(p) ==
    {<<>>} \cup
    {<<Child("t1", p, c.score, c.body, c.absent, "empty", <<>>)>> :
        c \in CommentSamples}

\* A children array for post p with two top-level comments, both of which
\* pass the persist filter: one named after the post, one after the next.
TwoComments(p) ==
    <<Child("t1", p, 2, Body("a", 10), {}, "empty", <<>>),
      Child("t1", (p % MaxDue) + 1, -2, Body("b", 10), {}, "empty", <<>>)>>

CurrentPost(t) == Head(scrapes[t].queue)

\* scrapeSinglePost has returned: its caller sleeps and goes to the next post,
\* or ends.
Returned(t) ==
    LET rest == Tail(scrapes[t].queue)
    IN  [scrapes EXCEPT ![t] =
            [NoScrape EXCEPT !.pc = IF rest = <<>> THEN "idle" ELSE "next",
                             !.queue = rest]]

PersistFilter_UpvotedOnly(comment) ==
    comment.score >= 2 /\ Len(comment.body) >= 10

\* (commentScore >= 2 || commentScore <= -2) && commentBody.length >= 10
PersistFilter(comment) ==
    (comment.score >= 2 \/ comment.score <= -2) /\ Len(comment.body) >= 10

\* comment.created_utc ? new Date(comment.created_utc * 1000) : new Date();
\* the records of the model carry no created_utc.
CreatedAtUtc(comment, at) ==
    IF "created_utc" \in DOMAIN comment THEN comment.created_utc ELSE at

RowsOf(redditId) ==
    {i \in 1..Len(redditComments) : redditComments[i].redditId = redditId}

Upserted_CreateOnly(comment, post, at) ==
    IF RowsOf(comment.comment_id) # {} THEN redditComments
    ELSE Append(redditComments,
                [redditId |-> comment.comment_id, redditPostId |-> post,
                 body |-> comment.body, upvotes |-> comment.score,
                 createdAtUtc |-> CreatedAtUtc(comment, at),
                 scrapedAt |-> at, sentiment |-> NoSentiment,
                 flagForDelete |-> FALSE, sentToAIAt |-> Null])

Upserted_ResetsSentiment(comment, post, at) ==
    IF RowsOf(comment.comment_id) # {}
    THEN [i \in 1..Len(redditComments) |->
            IF redditComments[i].redditId = comment.comment_id
            THEN [redditComments[i] EXCEPT
                    !.body = comment.body,
                    !.upvotes = comment.score,
                    !.createdAtUtc = CreatedAtUtc(comment, at),
                    !.scrapedAt = at,
                    !.sentiment = NoSentiment,
                    !.sentToAIAt = Null]
            ELSE redditComments[i]]
    ELSE Append(redditComments,
                [redditId |-> comment.comment_id, redditPostId |-> post,
                 body |-> comment.body, upvotes |-> comment.score,
                 createdAtUtc |-> CreatedAtUtc(comment, at),
                 scrapedAt |-> at, sentiment |-> NoSentiment,
                 flagForDelete |-> FALSE, sentToAIAt |-> Null])

\* reddit_comments after prisma.redditComment.upsert, keyed on redditId.
Upserted(comment, post, at) ==
    IF RowsOf(comment.comment_id) # {}
    THEN [i \in 1..Len(redditComments) |->
            IF redditComments[i].redditId = comment.comment_id
            THEN [redditComments[i] EXCEPT
                    !.body = comment.body,
                    !.upvotes = comment.score,
                    !.createdAtUtc = CreatedAtUtc(comment, at),
                    !.scrapedAt = at]
            ELSE redditComments[i]]
    ELSE Append(redditComments,
                [redditId |-> comment.comment_id, redditPostId |-> post,
                 body |-> comment.body, upvotes |-> comment.score,
                 createdAtUtc |-> CreatedAtUtc(comment, at),
                 scrapedAt |-> at, sentiment |-> NoSentiment,
                 flagForDelete |-> FALSE, sentToAIAt |-> Null])

\* scrapeRedditPostContent up to its loop: the posts are read and filtered.
scrapeRedditPostContent ==
    /\ scrapes["sweep"].pc = "idle"
    /\ scrapes' = [scrapes EXCEPT !["sweep"] =
          [NoScrape EXCEPT !.pc = IF DuePosts = {} THEN "idle" ELSE "next",
                           !.queue = InOrder(DuePosts)]]
    /\ lastFilter' = [at |-> now, due |-> DuePosts]
    /\ attempted' = {}
    /\ UNCHANGED <<poolVars, fetchVars, now, postTime, scrapedAt, postsToScrape,
                   treeVars, storeVars, commentLog, persisted,
                   scoreVars, laterVars>>

\* scrapePostsByIds(newPostIds) up to its loop, called without await by the
\* discovery that created the posts.
scrapePostsByIds(postIds) ==
    /\ scrapes["byIds"].pc = "idle"
    /\ postIds # {}
    /\ \A p \in postIds : postTime[p] # Null /\ scrapedAt[p] = Null
    /\ scrapes' = [scrapes EXCEPT !["byIds"] =
          [NoScrape EXCEPT !.pc = "next", !.queue = InOrder(postIds)]]
    /\ UNCHANGED <<poolVars, fetchVars, freshVars, now, treeVars, storeVars,
                   attempted, commentLog, persisted,
                   scoreVars, laterVars>>

\* scrapeSinglePost(post) up to its first await: getNextProxyAgent() is
\* called before the try block, so that an exception of createProxyAgent
\* (a proxy URL that HttpsProxyAgent cannot parse) leaves the caller's loop.
ScrapeBegin(t, throws) ==
    /\ scrapes[t].pc = "next"
    /\ attempted' = IF t = "sweep" THEN attempted \cup {CurrentPost(t)}
                    ELSE attempted
    /\ IF Len(proxyList) = 0
       THEN /\ ~throws
            /\ scrapes' = [scrapes EXCEPT ![t].pc = "fetching"]
            /\ UNCHANGED <<proxyList, currentIndex, proxyHealth, validating,
                           initialized>>
       ELSE LET scan == ScanProxies(0, currentIndex)
            IN  /\ NextProxyAgent(scan)
                /\ scrapes' =
                      IF throws THEN [scrapes EXCEPT ![t] = NoScrape]
                      ELSE [scrapes EXCEPT ![t].pc = "fetching",
                                           ![t].proxyUrl = scan.proxy]
    /\ UNCHANGED <<lastNext, rotation, fetchVars, freshVars, now, treeVars,
                   storeVars, commentLog, persisted,
                   scoreVars, laterVars>>

\* The response has arrived and holds the post: the comments are extracted
\* and now = new Date() is taken, before the first write is awaited.
ScrapeFetched(t, response) ==
    /\ scrapes[t].pc = "fetching"
    /\ response \in Responses(CurrentPost(t)) \cup {TwoComments(CurrentPost(t))}
    /\ scrapes' = [scrapes EXCEPT
          ![t].pc = "content",
          ![t].now = now,
          ![t].allComments = extractAllComments(response, PostName, Null, 0)]
    /\ UNCHANGED <<poolVars, fetchVars, freshVars, now, treeVars, storeVars,
                   attempted, commentLog, persisted,
                   scoreVars, laterVars>>

ScrapeFetchFails_StampsScrapedAt(t, error) ==
    /\ scrapes[t].pc = "fetching"
    /\ proxyHealth' = IF scrapes[t].proxyUrl # 0 /\ isProxyError(error)
                      THEN MarkedFailed(scrapes[t].proxyUrl)
                      ELSE proxyHealth
    /\ scrapedAt' = [scrapedAt EXCEPT ![CurrentPost(t)] = now]
    /\ scrapes' = Returned(t)
    /\ UNCHANGED <<proxyList, currentIndex, validating, initialized, lastNext,
                   rotation, fetchVars, postTime, postsToScrape, lastFilter,
                   now, treeVars, storeVars, attempted, commentLog, persisted,
                   scoreVars, laterVars>>

\* The request has failed: the catch block demotes the proxy on a proxy
\* error and returns false.
ScrapeFetchFails(t, error) ==
    /\ scrapes[t].pc = "fetching"
    /\ proxyHealth' = IF scrapes[t].proxyUrl # 0 /\ isProxyError(error)
                      THEN MarkedFailed(scrapes[t].proxyUrl)
                      ELSE proxyHealth
    /\ scrapes' = Returned(t)
    /\ UNCHANGED <<proxyList, currentIndex, validating, initialized, lastNext,
                   rotation, fetchVars, freshVars, now, treeVars, storeVars,
                   attempted, commentLog, persisted,
                   scoreVars, laterVars>>

\* The response does not hold the post (!postDataJson): return false.
ScrapeNoPostData(t) ==
    /\ scrapes[t].pc = "fetching"
    /\ scrapes' = Returned(t)
    /\ UNCHANGED <<poolVars, fetchVars, freshVars, now, treeVars, storeVars,
                   attempted, commentLog, persisted,
                   scoreVars, laterVars>>

\* prisma.redditPostContent.upsert resolves, or rejects into the catch block.
ContentUpsert(t, ok) ==
    /\ scrapes[t].pc = "content"
    /\ IF ok
       THEN /\ postContent' = [postContent EXCEPT ![CurrentPost(t)] =
                                  scrapes[t].now]
            /\ scrapes' = [scrapes EXCEPT ![t].pc = "comments"]
       ELSE /\ scrapes' = Returned(t)
            /\ UNCHANGED postContent
    /\ UNCHANGED <<poolVars, fetchVars, freshVars, now, treeVars,
                   redditComments, attempted, commentLog, persisted,
                   scoreVars, laterVars>>

CommentUpsert_FailureAborts(t, ok) ==
    /\ scrapes[t].pc = "comments"
    /\ scrapes[t].allComments # <<>>
    /\ LET comment == Head(scrapes[t].allComments)
           keep == PersistFilter(comment)
       IN  /\ ~keep => ok
           /\ redditComments' =
                 IF keep /\ ok
                 THEN Upserted(comment, CurrentPost(t), scrapes[t].now)
                 ELSE redditComments
           /\ commentLog' = [seen |-> TRUE, name |-> comment.comment_id,
                             score |-> comment.score, body |-> comment.body,
                             written |-> keep /\ ok, failed |-> keep /\ ~ok]
           /\ persisted' =
                 IF keep /\ ok
                 THEN [persisted EXCEPT ![comment.comment_id] =
                         [written |-> TRUE, body |-> comment.body,
                          score |-> comment.score, before |-> @.body]]
                 ELSE persisted
    /\ scrapes' = IF ok THEN [scrapes EXCEPT ![t].allComments = Tail(@)]
                  ELSE Returned(t)
    /\ UNCHANGED <<poolVars, fetchVars, freshVars, now, treeVars, postContent,
                   attempted,
                   scoreVars, laterVars>>

\* One iteration of the loop over allComments: the comment is filtered, and
\* its upsert resolves, or rejects into the loop's own catch block.
CommentUpsert(t, ok) ==
    /\ scrapes[t].pc = "comments"
    /\ scrapes[t].allComments # <<>>
    /\ LET comment == Head(scrapes[t].allComments)
           keep == PersistFilter(comment)
       IN  /\ ~keep => ok
           /\ redditComments' =
                 IF keep /\ ok
                 THEN Upserted(comment, CurrentPost(t), scrapes[t].now)
                 ELSE redditComments
           /\ commentLog' = [seen |-> TRUE, name |-> comment.comment_id,
                             score |-> comment.score, body |-> comment.body,
                             written |-> keep /\ ok, failed |-> keep /\ ~ok]
           /\ persisted' =
                 IF keep /\ ok
                 THEN [persisted EXCEPT ![comment.comment_id] =
                         [written |-> TRUE, body |-> comment.body,
                          score |-> comment.score, before |-> @.body]]
                 ELSE persisted
    /\ scrapes' = [scrapes EXCEPT ![t].allComments = Tail(@)]
    /\ UNCHANGED <<poolVars, fetchVars, freshVars, now, treeVars, postContent,
                   attempted,
                   scoreVars, laterVars>>

\* prisma.redditPost.update({scrapedAt: now}) resolves and scrapeSinglePost
\* returns true, or rejects into the catch block.
PostUpdate(t, ok) ==
    /\ scrapes[t].pc = "comments"
    /\ scrapes[t].allComments = <<>>
    /\ scrapedAt' = IF ok THEN [scrapedAt EXCEPT ![CurrentPost(t)] =
                                  scrapes[t].now]
                    ELSE scrapedAt
    /\ scrapes' = Returned(t)
    /\ UNCHANGED <<poolVars, fetchVars, now, postTime, postsToScrape,
                   lastFilter, treeVars, storeVars, attempted, commentLog,
                   persisted,
                   scoreVars, laterVars>>

DiscoverPost_ResetsScrapedAt(p, time) ==
    /\ postTime' = [postTime EXCEPT ![p] = time]
    /\ scrapedAt' = [scrapedAt EXCEPT ![p] = Null]
    /\ UNCHANGED <<poolVars, fetchVars, now, postsToScrape, lastFilter,
                   ingestVars, laterVars>>

\* Discovery (search or subreddit listing) creates the post, or updates its
\* url and postTime.
DiscoverPost(p, time) ==
    /\ postTime' = [postTime EXCEPT ![p] = time]
    /\ UNCHANGED <<poolVars, fetchVars, now, scrapedAt, postsToScrape,
                   lastFilter, ingestVars, laterVars>>

----------------------------------------------------------------------------
(* services/sentimentService.js: calcSentiment and analyzeSentiment.  A     *)
(* sentiment is held in hundredths: 100 stands for 1.00.                    *)

\* What JSON.parse of the model's reply may give: an object with or without
\* the fields sentiment and flagForDelete, the sentiment being whatever
\* number the model answered.
ParsedResponses ==
    [has : SUBSET {"sentiment", "flagForDelete"},
     sentiment : {-150, -100, 100, 150},
     flagForDelete : BOOLEAN]

\* The ways the scoring call fails: the request times out or is refused for
\* quota, or the reply is not JSON.
ScoringFailures == {"timeout", "quota", "malformed"}

NoScoring == [pc |-> "idle", queue |-> <<>>, analyzedComment |-> {}]

NoScoreLog == [batch |-> {}, attempted |-> {}, failed |-> {}]

\* reddit_comments rows with sentToAIAt null, in the order of the table.
Unscored ==
    SelectSeq([i \in 1..Len(redditComments) |-> i],
              LAMBDA i : redditComments[i].sentToAIAt = Null)

\* The loop goes to the next comment, or ends.
NextComment ==
    LET rest == Tail(scoring.queue)
    IN  [NoScoring EXCEPT !.pc = IF rest = <<>> THEN "idle" ELSE "analyzing",
                          !.queue = rest]

\* calcSentiment up to its first analyzeSentiment call.
calcSentiment ==
    /\ scoring.pc = "idle"
    /\ scoring' = [NoScoring EXCEPT
                      !.pc = IF Unscored = <<>> THEN "idle" ELSE "analyzing",
                      !.queue = Unscored]
    /\ scoreLog' = [batch |-> {Unscored[i] : i \in 1..Len(Unscored)},
                    attempted |-> {}, failed |-> {}]
    /\ UNCHANGED <<poolVars, fetchVars, freshVars, now, treeVars, storeVars,
                   scrapeVars, laterVars>>

\* analyzeSentiment returns the parsed reply; calcSentiment issues the update.
AnalyzeReturns(parsedResponse) ==
    /\ scoring.pc = "analyzing"
    /\ scoring' = [scoring EXCEPT !.pc = "updating",
                                  !.analyzedComment = {parsedResponse}]
    /\ scoreLog' = [scoreLog EXCEPT !.attempted = @ \cup {Head(scoring.queue)}]
    /\ UNCHANGED <<poolVars, fetchVars, freshVars, now, treeVars, storeVars,
                   scrapeVars, laterVars>>

\* The reply parses to null: nothing is written and the loop continues.
AnalyzeReturnsNull ==
    /\ scoring.pc = "analyzing"
    /\ scoring' = NextComment
    /\ scoreLog' = [scoreLog EXCEPT !.attempted = @ \cup {Head(scoring.queue)}]
    /\ UNCHANGED <<poolVars, fetchVars, freshVars, now, treeVars, storeVars,
                   scrapeVars, laterVars>>

AnalyzeFails_Aborts(failure) ==
    /\ scoring.pc = "analyzing"
    /\ scoring' = NoScoring
    /\ scoreLog' = [scoreLog EXCEPT !.attempted = @ \cup {Head(scoring.queue)},
                                    !.failed = @ \cup {Head(scoring.queue)}]
    /\ UNCHANGED <<poolVars, fetchVars, freshVars, now, treeVars, storeVars,
                   scrapeVars, laterVars>>

\* analyzeSentiment throws: the catch block of the loop logs and continues.
AnalyzeFails(failure) ==
    /\ scoring.pc = "analyzing"
    /\ scoring' = NextComment
    /\ scoreLog' = [scoreLog EXCEPT !.attempted = @ \cup {Head(scoring.queue)},
                                    !.failed = @ \cup {Head(scoring.queue)}]
    /\ UNCHANGED <<poolVars, fetchVars, freshVars, now, treeVars, storeVars,
                   scrapeVars, laterVars>>

\* The row after prisma.redditComment.update with sentiment ?? null,
\* flagForDelete ?? false and sentToAIAt: now.
ScoredRow(row, analyzedComment, at) ==
    [row EXCEPT
        !.sentiment = IF "sentiment" \in analyzedComment.has
                      THEN [set |-> TRUE, value |-> analyzedComment.sentiment]
                      ELSE NoSentiment,
        !.flagForDelete = IF "flagForDelete" \in analyzedComment.has
                          THEN analyzedComment.flagForDelete ELSE FALSE,
        !.sentToAIAt = at]

SentimentUpdate_RollsBack(ok) ==
    /\ scoring.pc = "updating"
    /\ redditComments' =
          IF ok
          THEN [redditComments EXCEPT ![Head(scoring.queue)] =
                  ScoredRow(@, CHOOSE a \in scoring.analyzedComment : TRUE, now)]
          ELSE [i \in 1..Len(redditComments) |->
                  IF i \in scoreLog.batch
                  THEN [redditComments[i] EXCEPT !.sentiment = NoSentiment,
                                                 !.flagForDelete = FALSE,
                                                 !.sentToAIAt = Null]
                  ELSE redditComments[i]]
    /\ scoring' = NextComment
    /\ UNCHANGED <<poolVars, fetchVars, freshVars, now, treeVars, postContent,
                   scrapeVars, scoreLog, laterVars>>

\* The update resolves, or rejects into the catch block of the loop.
SentimentUpdate(ok) ==
    /\ scoring.pc = "updating"
    /\ redditComments' =
          IF ok
          THEN [redditComments EXCEPT ![Head(scoring.queue)] =
                  ScoredRow(@, CHOOSE a \in scoring.analyzedComment : TRUE, now)]
          ELSE redditComments
    /\ scoring' = NextComment
    /\ UNCHANGED <<poolVars, fetchVars, freshVars, now, treeVars, postContent,
                   scrapeVars, scoreLog, laterVars>>

\* The process exits while calcSentiment is at an await: the loop and what
\* it holds in memory are gone, the table is as it was.
ProcessExits ==
    /\ scoring.pc # "idle"
    /\ scoring' = NoScoring
    /\ UNCHANGED <<poolVars, fetchVars, freshVars, now, treeVars, storeVars,
                   scrapeVars, scoreLog, laterVars>>

----------------------------------------------------------------------------
(* scripts/runSentimentAnalysis.js: node runs the script in a process of    *)
(* its own, which calls calcSentiment on the same table and exits.  It      *)
(* shares no flag with the scheduled job of the server process.             *)

scriptFrame ==
    UNCHANGED <<poolVars, fetchVars, freshVars, now, treeVars, postContent,
                scrapeVars, scoreVars, jobVars, logVars, discoverVars,
                promptVars>>

\* The loop of the script goes to its next comment; after the last one
\* calcSentiment returns and the script calls process.exit(0).
ManualNext ==
    LET rest == Tail(manual.queue)
    IN  [NoScoring EXCEPT !.pc = IF rest = <<>> THEN "idle" ELSE "analyzing",
                          !.queue = rest]

\* runTest: calcSentiment up to its first analyzeSentiment call.
runTest ==
    /\ manual.pc = "idle"
    /\ manual' = [NoScoring EXCEPT
                     !.pc = IF Unscored = <<>> THEN "idle" ELSE "analyzing",
                     !.queue = Unscored]
    /\ UNCHANGED redditComments
    /\ scriptFrame

\* analyzeSentiment returns the parsed reply to the loop of the script.
ManualAnalyzeReturns(parsedResponse) ==
    /\ manual.pc = "analyzing"
    /\ manual' = [manual EXCEPT !.pc = "updating",
                                !.analyzedComment = {parsedResponse}]
    /\ UNCHANGED redditComments
    /\ scriptFrame

\* analyzeSentiment throws, or its reply parses to null: nothing is written
\* and the loop of the script continues.
ManualAnalyzeFails ==
    /\ manual.pc = "analyzing"
    /\ manual' = ManualNext
    /\ UNCHANGED redditComments
    /\ scriptFrame

\* The update of the script resolves, or rejects into the catch block.
ManualSentimentUpdate(ok) ==
    /\ manual.pc = "updating"
    /\ redditComments' =
          IF ok
          THEN [redditComments EXCEPT ![Head(manual.queue)] =
                  ScoredRow(@, CHOOSE a \in manual.analyzedComment : TRUE, now)]
          ELSE redditComments
    /\ manual' = ManualNext
    /\ scriptFrame

----------------------------------------------------------------------------
(* jobs: the callbacks that node-cron calls on the schedules of             *)
(* config/scheduler.js.  Each callback awaits one sweep; a sweep awaits its  *)
(* read of the table ("reading"), then for each item the request to the      *)
(* remote service ("fetching") and the writes of what it returned            *)
(* ("writing").                                                              *)

\* The callbacks are named after the file that schedules them: the
\* content-freshness sweep is scheduled by the startRedditScraperJob of
\* jobs/redditScraperJob.js and by the startRedditScraperJob of jobs/index.js,
\* the scoring sweep by jobs/sentimentAnalysisJob.js.
Jobs == {"jobs/redditScraperJob.js", "jobs/index.js",
         "jobs/sentimentAnalysisJob.js"}

\* The files that declare let isRunning = false and test it in the callback.
LockedJobs == {"jobs/index.js", "jobs/sentimentAnalysisJob.js"}

NoCron == [job |-> "", skipped |-> FALSE]

\* A callback at the await of its sweep's findMany.
Invoked == [pc |-> "reading", left |-> 0]

\* The callbacks of job j without the i-th one.
Without(j, i) ==
    SubSeq(invocations[j], 1, i - 1)
        \o SubSeq(invocations[j], i + 1, Len(invocations[j]))

\* The callback body after the lock check: isRunning = true where the file
\* has the flag, then the sweep is called up to its first await.
Started(j) ==
    /\ Len(invocations[j]) < MaxOverlap
    /\ isRunning' = [isRunning EXCEPT ![j] = j \in LockedJobs]
    /\ invocations' = [invocations EXCEPT ![j] = Append(@, Invoked)]
    /\ cronLog' = [job |-> j, skipped |-> FALSE]

\* if (isRunning) { console.log(...skipped...); return; }
Skipped(j) ==
    /\ cronLog' = [job |-> j, skipped |-> TRUE]
    /\ UNCHANGED <<isRunning, invocations>>

\* The schedule of jobs/redditScraperJob.js fires: the callback has no lock
\* flag and calls scrapeRedditPostContent each time.
RedditScraperJobFires ==
    /\ job["jobs/redditScraperJob.js"]
    /\ Started("jobs/redditScraperJob.js")
    /\ UNCHANGED <<nonJobVars, job>>

\* The schedule of the startRedditScraperJob of jobs/index.js fires.
LockedRedditScraperJobFires ==
    /\ job["jobs/index.js"]
    /\ IF isRunning["jobs/index.js"] THEN Skipped("jobs/index.js")
       ELSE Started("jobs/index.js")
    /\ UNCHANGED <<nonJobVars, job>>

\* The schedule of jobs/sentimentAnalysisJob.js fires.
SentimentAnalysisJobFires ==
    /\ job["jobs/sentimentAnalysisJob.js"]
    /\ IF isRunning["jobs/sentimentAnalysisJob.js"]
       THEN Skipped("jobs/sentimentAnalysisJob.js")
       ELSE Started("jobs/sentimentAnalysisJob.js")
    /\ UNCHANGED <<nonJobVars, job>>

Finished_KeepsLockOnThrow(j, i) ==
    /\ invocations' = [invocations EXCEPT ![j] = Without(j, i)]
    /\ isRunning' = IF j \in LockedJobs /\ invocations[j][i].pc # "reading"
                    THEN [isRunning EXCEPT ![j] = FALSE]
                    ELSE isRunning

\* The sweep of the i-th callback of job j returns or throws: the callback
\* logs, and its finally block releases the flag where the file has one.
Finished(j, i) ==
    /\ invocations' = [invocations EXCEPT ![j] = Without(j, i)]
    /\ isRunning' = IF j \in LockedJobs THEN [isRunning EXCEPT ![j] = FALSE]
                    ELSE isRunning

\* The sweep goes to its next item, or returns.
NextItem(j, i) ==
    IF invocations[j][i].left > 1
    THEN /\ invocations' = [invocations EXCEPT
                ![j][i] = [pc |-> "fetching", left |-> @.left - 1]]
         /\ UNCHANGED isRunning
    ELSE Finished(j, i)

\* findMany resolves with n items to process; with none the sweep returns.
ReadResolves(j, i, n) ==
    /\ i \in 1..Len(invocations[j])
    /\ invocations[j][i].pc = "reading"
    /\ IF n = 0 THEN Finished(j, i)
       ELSE /\ invocations' = [invocations EXCEPT
                   ![j][i] = [pc |-> "fetching", left |-> n]]
            /\ UNCHANGED isRunning
    /\ UNCHANGED <<nonJobVars, cronLog, job>>

\* findMany rejects: the sweep rethrows and the callback catches.
ReadRejects(j, i) ==
    /\ i \in 1..Len(invocations[j])
    /\ invocations[j][i].pc = "reading"
    /\ Finished(j, i)
    /\ UNCHANGED <<nonJobVars, cronLog, job>>

\* The remote service answers the request of the current item.
FetchResponds(j, i) ==
    /\ i \in 1..Len(invocations[j])
    /\ invocations[j][i].pc = "fetching"
    /\ invocations' = [invocations EXCEPT ![j][i].pc = "writing"]
    /\ UNCHANGED <<nonJobVars, isRunning,
                   cronLog, job>>

\* The request of the current item fails: the error is caught per item.
FetchRejects(j, i) ==
    /\ i \in 1..Len(invocations[j])
    /\ invocations[j][i].pc = "fetching"
    /\ NextItem(j, i)
    /\ UNCHANGED <<nonJobVars, cronLog, job>>

\* The writes of the current item resolve, or reject and are caught per item.
WriteSettles(j, i) ==
    /\ i \in 1..Len(invocations[j])
    /\ invocations[j][i].pc = "writing"
    /\ NextItem(j, i)
    /\ UNCHANGED <<nonJobVars, cronLog, job>>

\* stopRedditScraperJob, stopSentimentAnalysisJob: if (job) { job.stop();
\* job = null; isRunning = false; } where the file has the flag, and
\* if (job) { job.stop(); job = null; } in jobs/redditScraperJob.js.  The
\* callbacks that are executing are not told.
stopJob(j) ==
    /\ job[j]
    /\ job' = [job EXCEPT ![j] = FALSE]
    /\ isRunning' = IF j \in LockedJobs THEN [isRunning EXCEPT ![j] = FALSE]
                    ELSE isRunning
    /\ UNCHANGED <<nonJobVars, invocations, cronLog>>

\* startRedditScraperJob, startSentimentAnalysisJob after a stop:
\* job = cron.schedule(...).  The flag is left as it is.
startJob(j) ==
    /\ ~job[j]
    /\ job' = [job EXCEPT ![j] = TRUE]
    /\ UNCHANGED <<nonJobVars, isRunning, invocations, cronLog>>

\* getJobStatus().running of a file that has the flag.
getJobStatus(j) == isRunning[j]

\* startAllJobs has started the schedules and none has fired yet.
JobsIdle ==
    /\ isRunning = [j \in Jobs |-> FALSE]
    /\ invocations = [j \in Jobs |-> <<>>]
    /\ cronLog = NoCron
    /\ job = [j \in Jobs |-> TRUE]

----------------------------------------------------------------------------
(* utils/apiLogger: withLogging wraps an outbound call and hands a           *)
(* RequestLogEntry to logApiRequest, which is not awaited.                   *)

SERVICES == {"reddit", "finnhub", "openai"}

\* options.getResponseSummary: not given, a function that returns a summary,
\* or a function that throws on the response it is given.
Summaries == {"none", "returns", "throws"}

\* What axiosCall() settles with: a response (axios resolves on a 2xx status)
\* or an error, with the status of error.response (0: no response).
AxiosResponses == [kind : {"response"}, code : {""}, status : {200}]

AxiosErrors == [kind : {"error"}, code : {""}, status : {0, 429}]

\* What the caller of withLogging gets when getResponseSummary has thrown.
SummaryError == [kind |-> "error", code |-> "summary", status |-> 0]

NoLogging ==
    [pc |-> "idle", service |-> "", summary |-> "none", settled |-> NoOutcome,
     outcome |-> NoOutcome]

\* The argument of logApiRequest built in the finally block of withLogging.
LogEntry(service, summary, settled) ==
    [service |-> service,
     statusCode |-> IF settled.status # 0 THEN settled.status ELSE Null,
     success |-> settled.kind = "response" /\ settled.status >= 200
                    /\ settled.status < 300,
     responseSummary |-> settled.kind = "response" /\ summary = "returns"]

\* logApiRequest up to its first await: getServiceId answers from the cache
\* or awaits the upsert of the service.
LogTask(entry) ==
    [pc |-> IF entry.service \in serviceIdCache THEN "create" ELSE "upsert",
     entry |-> entry]

WithoutTask(i) ==
    SubSeq(logTasks, 1, i - 1) \o SubSeq(logTasks, i + 1, Len(logTasks))

\* withLogging up to await axiosCall().
withLogging(service, summary) ==
    /\ logging.pc \in {"idle", "returned"}
    /\ Len(logTasks) + Len(externalApiLog) < MaxLogs
    /\ logging' = [NoLogging EXCEPT !.pc = "awaiting", !.service = service,
                                    !.summary = summary]
    /\ UNCHANGED <<nonLogVars, logTasks, serviceIdCache, externalApiLog>>

\* axiosCall() settles and the finally block runs: it evaluates the
\* arguments of logApiRequest, getResponseSummary(response) among them when
\* there is a response, and calls logApiRequest without awaiting it.  An
\* exception thrown inside finally replaces the pending return or throw.
Settled(settled) ==
    /\ logging.pc = "awaiting"
    /\ IF settled.kind = "response" /\ logging.summary = "throws"
       THEN /\ logging' = [logging EXCEPT !.pc = "returned",
                                          !.settled = settled,
                                          !.outcome = SummaryError]
            /\ UNCHANGED logTasks
       ELSE /\ logging' = [logging EXCEPT !.pc = "returned",
                                          !.settled = settled,
                                          !.outcome = settled]
            /\ logTasks' =
                  Append(logTasks,
                         LogTask(LogEntry(logging.service, logging.summary,
                                          settled)))
    /\ UNCHANGED <<nonLogVars, serviceIdCache, externalApiLog>>

\* response = await axiosCall(); return response
AxiosResolves(response) == Settled(response)

\* catch (err) { error = err; throw err; }
AxiosRejects(error) == Settled(error)

\* getServiceId: the upsert of external_services resolves and the id is
\* cached, or rejects into the catch block of logApiRequest.
getServiceId(i, ok) ==
    /\ i \in 1..Len(logTasks)
    /\ logTasks[i].pc = "upsert"
    /\ IF ok
       THEN /\ serviceIdCache' = serviceIdCache \cup {logTasks[i].entry.service}
            /\ logTasks' = [logTasks EXCEPT ![i].pc = "create"]
       ELSE /\ logTasks' = WithoutTask(i)
            /\ UNCHANGED serviceIdCache
    /\ UNCHANGED <<nonLogVars, logging, externalApiLog>>

\* logApiRequest: prisma.externalApiLog.create resolves, or rejects into the
\* catch block, which logs and returns null.
logApiRequest(i, ok) ==
    /\ i \in 1..Len(logTasks)
    /\ logTasks[i].pc = "create"
    /\ externalApiLog' = IF ok THEN Append(externalApiLog, logTasks[i].entry)
                         ELSE externalApiLog
    /\ logTasks' = WithoutTask(i)
    /\ UNCHANGED <<nonLogVars, logging, serviceIdCache>>

\* No outbound call has been wrapped yet.
LogIdle ==
    /\ logging = NoLogging
    /\ logTasks = <<>>
    /\ serviceIdCache = {}
    /\ externalApiLog = <<>>

\* The slots of the discovery operations that may run together.
Discoveries == 1..MaxDiscoveries

\* A slot no discovery operation occupies.
NoDiscovery ==
    [kind |-> "", pc |-> "idle", result |-> <<>>, posts |-> <<>>,
     newPostIds |-> {}, outcome |-> "none"]

\* The ticker was never looked up and no discovery operation runs.
DiscoverIdle ==
    /\ stocks = 0
    /\ discoveries = [d \in Discoveries |-> NoDiscovery]

\* Nothing beyond the ingestion pipeline has run.
\* No comment has been given to the scoring procedure.
NoProcedure ==
    [step |-> 0, base |-> 0, bullish |-> 0, bearish |-> 0, votes |-> 0,
     increase |-> 0, decrease |-> 0, adjustment |-> 0, value |-> 0,
     sentiment |-> 0]

PromptIdle == procedure = NoProcedure

\* The script is not running.
ScriptIdle == manual = NoScoring

LaterIdle ==
    /\ JobsIdle
    /\ LogIdle
    /\ DiscoverIdle
    /\ PromptIdle
    /\ ScriptIdle

----------------------------------------------------------------------------
(* Specification of the proxy manager under arbitrary calls of its exports *)

PoolInit ==
    /\ proxyList = <<>>
    /\ currentIndex = 0
    /\ proxyHealth = [p \in Proxies |-> NoHealth]
    /\ validating = 0
    /\ initialized = FALSE
    /\ lastNext = NoNext
    /\ rotation = <<>>

FetchInit ==
    /\ calls = [c \in 1..MaxCalls |-> [phase |-> "idle", proxy |-> 0]]
    /\ lastOutcome = NoOutcome

\* No post is stored.
FreshIdle ==
    /\ postTime = [p \in Posts |-> 0]
    /\ scrapedAt = [p \in Posts |-> Null]
    /\ postsToScrape = <<>>
    /\ lastFilter = [at |-> Null, due |-> {}]

\* No post is being scraped.
TreeIdle ==
    /\ commentsData = NoForest
    /\ allComments = NotExtracted

\* The comment and content tables are empty and no scrape loop runs.
ScrapeIdle ==
    /\ redditComments = <<>>
    /\ postContent = [p \in ScrapePosts |-> Null]
    /\ scrapes = [t \in Tasks |-> NoScrape]
    /\ attempted = {}
    /\ commentLog = NoCommentLog
    /\ persisted = [p \in ScrapePosts |-> NeverPersisted]
    /\ scoring = NoScoring
    /\ scoreLog = NoScoreLog

Init ==
    /\ PoolInit
    /\ FetchInit
    /\ FreshIdle
    /\ TreeIdle
    /\ ScrapeIdle
    /\ LaterIdle
    /\ now = 0

Next ==
    \/ \E n \in 0..MaxProxies : initializeProxies(n)
    \/ \E ok \in BOOLEAN : validateProxy(ok)
    \/ getNextProxyAgent
    \/ getNextProxy
    \/ \E i \in 1..Len(proxyList) : markProxyFailed(proxyList[i])
    \/ \E d \in TickSteps : Tick(d)

Spec == Init /\ [][Next]_vars

\* The proxy manager with initializeProxies called any number of times.
NextAgain ==
    \/ Next
    \/ initializeProxiesAgain

SpecAgain == Init /\ [][NextAgain]_vars

----------------------------------------------------------------------------
(* Specification of the freshness sweep over stored posts: every post was  *)
(* created at instant 0 or after, and scraped, if ever, after its creation. *)

PostTimes == {0, MS_PER_DAY}

InitFresh ==
    /\ PoolInit
    /\ FetchInit
    /\ now \in Instants
    /\ postTime \in [Posts -> {t \in PostTimes : t <= now}]
    /\ scrapedAt \in [Posts -> {Null} \cup {t \in Instants : t <= now}]
    /\ \A p \in Posts : scrapedAt[p] # Null => scrapedAt[p] >= postTime[p]
    /\ postsToScrape = <<>>
    /\ lastFilter = [at |-> Null, due |-> {}]
    /\ TreeIdle
    /\ ScrapeIdle
    /\ LaterIdle

NextFresh ==
    \/ SweepStart
    \/ \E ok \in BOOLEAN : SweepScrape(ok)
    \/ \E t \in Instants : AdvanceClock(t)

SpecFresh == InitFresh /\ [][NextFresh]_vars

----------------------------------------------------------------------------
(* Specification of extractAllComments applied to the reply forest of a     *)
(* fetched post.                                                            *)

InitExtract ==
    /\ PoolInit
    /\ FetchInit
    /\ FreshIdle
    /\ now = 0
    /\ \E n \in 0..MaxNodes :
          \E parent \in [1..n -> 0..n] :
              \E kind \in [1..n -> {"t1", "more"}] :
                  \E replies \in [1..n -> {"listing", "empty", "missing"}] :
                      /\ IsForest(n, parent, kind, replies)
                      /\ \E order \in {Ident(n), Reversed(n)} :
                            commentsData =
                                Forest(parent, order, kind, replies,
                                       [x \in 1..n |-> 0],
                                       [x \in 1..n |-> <<>>],
                                       [x \in 1..n |-> {}])
    /\ allComments = NotExtracted
    /\ ScrapeIdle
    /\ LaterIdle

NextExtract == ExtractComments

SpecExtract == InitExtract /\ [][NextExtract]_vars

----------------------------------------------------------------------------
(* Specifications of the scrape loops, with one proxy configured and no     *)
(* post stored at the start.                                                *)

InitScrape ==
    /\ proxyList = <<1>>
    /\ currentIndex = 0
    /\ proxyHealth = [p \in Proxies |-> IF p = 1 THEN HealthyRecord ELSE NoHealth]
    /\ validating = 0
    /\ initialized = TRUE
    /\ lastNext = NoNext
    /\ rotation = <<>>
    /\ FetchInit
    /\ now = 0
    /\ postTime = [p \in ScrapePosts |-> Null]
    /\ scrapedAt = [p \in ScrapePosts |-> Null]
    /\ postsToScrape = <<>>
    /\ lastFilter = [at |-> Null, due |-> {}]
    /\ TreeIdle
    /\ ScrapeIdle
    /\ LaterIdle

\* The response every request of these specifications gets for post p.
PlainResponse(p) ==
    <<Child("t1", p, -2, Body("a", 10), {}, "empty", <<>>)>>

\* The freshness sweep and an on-demand scrape run side by side on one post
\* while the clock advances; a request fails with an error that is not a
\* proxy error.
NextScrape ==
    \/ DiscoverPost(1, 0)
    \/ scrapeRedditPostContent
    \/ scrapePostsByIds({1})
    \/ \E t \in Tasks, throws \in BOOLEAN : ScrapeBegin(t, throws)
    \/ \E t \in Tasks : ScrapeFetched(t, PlainResponse(1))
    \/ \E t \in Tasks, error \in OtherErrors : ScrapeFetchFails(t, error)
    \/ \E t \in Tasks : ScrapeNoPostData(t)
    \/ \E t \in Tasks, ok \in BOOLEAN : ContentUpsert(t, ok)
    \/ \E t \in Tasks, ok \in BOOLEAN : CommentUpsert(t, ok)
    \/ \E t \in Tasks, ok \in BOOLEAN : PostUpdate(t, ok)
    \/ \E t \in (now + 1)..MaxClock : AdvanceClock(t)

SpecScrape == InitScrape /\ [][NextScrape]_vars

\* The freshness sweep alone, over the posts that discovery creates, at one
\* instant.
NextSweep ==
    \/ \E p \in ScrapePosts : DiscoverPost(p, 0)
    \/ scrapeRedditPostContent
    \/ \E throws \in BOOLEAN : ScrapeBegin("sweep", throws)
    \/ \E p \in ScrapePosts : ScrapeFetched("sweep", PlainResponse(p))
    \/ \E error \in Errors : ScrapeFetchFails("sweep", error)
    \/ ScrapeNoPostData("sweep")
    \/ \E ok \in BOOLEAN : ContentUpsert("sweep", ok)
    \/ \E ok \in BOOLEAN : CommentUpsert("sweep", ok)
    \/ \E ok \in BOOLEAN : PostUpdate("sweep", ok)

SpecSweep == InitScrape /\ [][NextSweep]_vars

----------------------------------------------------------------------------
(* Specification of the comment table: the two loops scrape one post, whose *)
(* comment changes from response to response, at one instant.               *)

NextStore ==
    \/ DiscoverPost(1, 0)
    \/ scrapeRedditPostContent
    \/ scrapePostsByIds({1})
    \/ \E t \in Tasks, throws \in BOOLEAN : ScrapeBegin(t, throws)
    \/ \E t \in Tasks : \E response \in Responses(1) :
          ScrapeFetched(t, response)
    \/ \E t \in Tasks, error \in Errors : ScrapeFetchFails(t, error)
    \/ \E t \in Tasks : ScrapeNoPostData(t)
    \/ \E t \in Tasks, ok \in BOOLEAN : ContentUpsert(t, ok)
    \/ \E t \in Tasks, ok \in BOOLEAN : CommentUpsert(t, ok)
    \/ \E t \in Tasks, ok \in BOOLEAN : PostUpdate(t, ok)

SpecStore == InitScrape /\ [][NextStore]_vars

----------------------------------------------------------------------------
(* Specification of the scrapes of a post created 30 hours before it is     *)
(* discovered: the sweep and the on-demand scrape that discovery starts     *)
(* work on it while the clock passes the 1-hour interval of its age rule.   *)

ThirtyHours == 30 * MS_PER_HOUR

InitAged ==
    /\ proxyList = <<1>>
    /\ currentIndex = 0
    /\ proxyHealth = [p \in Proxies |-> IF p = 1 THEN HealthyRecord ELSE NoHealth]
    /\ validating = 0
    /\ initialized = TRUE
    /\ lastNext = NoNext
    /\ rotation = <<>>
    /\ FetchInit
    /\ now = ThirtyHours
    /\ postTime = [p \in ScrapePosts |-> Null]
    /\ scrapedAt = [p \in ScrapePosts |-> Null]
    /\ postsToScrape = <<>>
    /\ lastFilter = [at |-> Null, due |-> {}]
    /\ TreeIdle
    /\ ScrapeIdle
    /\ LaterIdle

AgedInstants ==
    {ThirtyHours + 1, ThirtyHours + MS_PER_HOUR, ThirtyHours + MS_PER_HOUR + 1}

NextAged ==
    \/ DiscoverPost(1, 0)
    \/ scrapeRedditPostContent
    \/ scrapePostsByIds({1})
    \/ \E t \in Tasks, throws \in BOOLEAN : ScrapeBegin(t, throws)
    \/ \E t \in Tasks : ScrapeFetched(t, PlainResponse(1))
    \/ \E t \in Tasks, error \in OtherErrors : ScrapeFetchFails(t, error)
    \/ \E t \in Tasks : ScrapeNoPostData(t)
    \/ \E t \in Tasks, ok \in BOOLEAN : ContentUpsert(t, ok)
    \/ \E t \in Tasks, ok \in BOOLEAN : CommentUpsert(t, ok)
    \/ \E t \in Tasks, ok \in BOOLEAN : PostUpdate(t, ok)
    \/ \E t \in AgedInstants : AdvanceClock(t)

SpecAged == InitAged /\ [][NextAged]_vars

----------------------------------------------------------------------------
(* Specification of the cadence of the freshness sweep: the schedule of     *)
(* config/scheduler.js fires every 10 minutes, the sweep reads the posts    *)
(* within MaxLatency ms of the trigger, every request, read and write       *)
(* succeeds, and each sweep is over long before the next trigger.           *)

\* REDDIT_SCRAPER.schedule: '*/10 * * * *'
SchedulePeriod == 10 * MS_PER_MINUTE

\* The instant of the last trigger at or before now.
LastTrigger == (now \div SchedulePeriod) * SchedulePeriod

\* The sweep of the last trigger has read and filtered the posts.
Triggered == lastFilter.at # Null /\ lastFilter.at >= LastTrigger

\* One post is stored, created at instant 0 and never scraped.
InitCadence ==
    /\ proxyList = <<1>>
    /\ currentIndex = 0
    /\ proxyHealth = [p \in Proxies |-> IF p = 1 THEN HealthyRecord ELSE NoHealth]
    /\ validating = 0
    /\ initialized = TRUE
    /\ lastNext = NoNext
    /\ rotation = <<>>
    /\ FetchInit
    /\ now = 0
    /\ postTime = [p \in ScrapePosts |-> IF p = 1 THEN 0 ELSE Null]
    /\ scrapedAt = [p \in ScrapePosts |-> Null]
    /\ postsToScrape = <<>>
    /\ lastFilter = [at |-> Null, due |-> {}]
    /\ TreeIdle
    /\ ScrapeIdle
    /\ LaterIdle

\* The callback of the schedule runs: the findMany of its sweep resolves
\* within MaxLatency ms of the trigger.
ScheduledSweep ==
    /\ ~Triggered
    /\ scrapeRedditPostContent

\* Time passes by 1 ms within MaxLatency ms of a trigger; after that, once
\* the sweep of this trigger is over, the next trigger comes.
TimePasses ==
    IF now - LastTrigger < MaxLatency
    THEN AdvanceClock(now + 1)
    ELSE /\ Triggered
         /\ scrapes["sweep"].pc = "idle"
         /\ LastTrigger + SchedulePeriod <= MaxTriggers * SchedulePeriod
         /\ AdvanceClock(LastTrigger + SchedulePeriod)

NextCadence ==
    \/ ScheduledSweep
    \/ ScrapeBegin("sweep", FALSE)
    \/ ScrapeFetched("sweep", PlainResponse(1))
    \/ ContentUpsert("sweep", TRUE)
    \/ CommentUpsert("sweep", TRUE)
    \/ PostUpdate("sweep", TRUE)
    \/ TimePasses

SpecCadence == InitCadence /\ [][NextCadence]_vars

----------------------------------------------------------------------------
(* Specification of the scoring sweep over comments that scrapes have       *)
(* stored and that were never scored.                                       *)

InitScore ==
    /\ PoolInit
    /\ FetchInit
    /\ FreshIdle
    /\ TreeIdle
    /\ now = 0
    /\ redditComments =
          [i \in 1..MaxComments |->
              [redditId |-> i, redditPostId |-> 1, body |-> Body("a", 10),
               upvotes |-> 2, createdAtUtc |-> 0, scrapedAt |-> 0,
               sentiment |-> NoSentiment,
               flagForDelete |-> FALSE, sentToAIAt |-> Null]]
    /\ postContent = [p \in ScrapePosts |-> Null]
    /\ scrapes = [t \in Tasks |-> NoScrape]
    /\ attempted = {}
    /\ commentLog = NoCommentLog
    /\ persisted = [p \in ScrapePosts |-> NeverPersisted]
    /\ scoring = NoScoring
    /\ scoreLog = NoScoreLog
    /\ LaterIdle

NextScore ==
    \/ calcSentiment
    \/ \E parsedResponse \in ParsedResponses : AnalyzeReturns(parsedResponse)
    \/ AnalyzeReturnsNull
    \/ \E failure \in ScoringFailures : AnalyzeFails(failure)
    \/ \E ok \in BOOLEAN : SentimentUpdate(ok)

SpecScore == InitScore /\ [][NextScore]_vars

----------------------------------------------------------------------------
(* Specification of the size of a scoring sweep: any number of stored       *)
(* comments were never scored, and every scoring call and update succeeds.  *)

\* findMany({ where: { sentToAIAt: null }, take: 20 }) of sentimentHelper's
\* getRedditPostContent; the findMany of calcSentiment has no take.
take == 20

\* The reply every scoring call of this specification gets.
PlainReply ==
    [has |-> {"sentiment", "flagForDelete"}, sentiment |-> 100,
     flagForDelete |-> FALSE]

InitBatch ==
    /\ PoolInit
    /\ FetchInit
    /\ FreshIdle
    /\ TreeIdle
    /\ now = 0
    /\ \E n \in 0..MaxStored :
          redditComments =
              [i \in 1..n |->
                  [redditId |-> i, redditPostId |-> 1, body |-> Body("a", 10),
                   upvotes |-> 2, createdAtUtc |-> 0, scrapedAt |-> 0,
                   sentiment |-> NoSentiment,
                   flagForDelete |-> FALSE, sentToAIAt |-> Null]]
    /\ postContent = [p \in ScrapePosts |-> Null]
    /\ scrapes = [t \in Tasks |-> NoScrape]
    /\ attempted = {}
    /\ commentLog = NoCommentLog
    /\ persisted = [p \in ScrapePosts |-> NeverPersisted]
    /\ scoring = NoScoring
    /\ scoreLog = NoScoreLog
    /\ LaterIdle

NextBatch ==
    \/ calcSentiment
    \/ AnalyzeReturns(PlainReply)
    \/ SentimentUpdate(TRUE)

SpecBatch == InitBatch /\ [][NextBatch]_vars

----------------------------------------------------------------------------
(* Specification of the scheduled jobs: the schedules fire at any moment    *)
(* and the awaited calls of the sweeps settle in any order.                 *)

NextJobs ==
    \/ RedditScraperJobFires
    \/ LockedRedditScraperJobFires
    \/ SentimentAnalysisJobFires
    \/ \E j \in Jobs, i \in 1..MaxOverlap, n \in 0..MaxWork :
          ReadResolves(j, i, n)
    \/ \E j \in Jobs, i \in 1..MaxOverlap : ReadRejects(j, i)
    \/ \E j \in Jobs, i \in 1..MaxOverlap : FetchResponds(j, i)
    \/ \E j \in Jobs, i \in 1..MaxOverlap : FetchRejects(j, i)
    \/ \E j \in Jobs, i \in 1..MaxOverlap : WriteSettles(j, i)

SpecJobs == Init /\ [][NextJobs]_vars

\* What the scheduling guarantees: the database settles every read and every
\* write it is sent.  Nothing is assumed of the remote services: a request
\* may stay unanswered for ever, and the requests of the sweeps carry no
\* timeout that would settle them.
FairJobs ==
    \A j \in Jobs, i \in 1..MaxOverlap :
        /\ WF_vars(\/ \E n \in 0..MaxWork : ReadResolves(j, i, n)
                   \/ ReadRejects(j, i))
        /\ WF_vars(WriteSettles(j, i))

SpecJobsLive == SpecJobs /\ FairJobs

\* The schedules of the files that have the flag fire, and are stopped and
\* started again, while their callbacks execute; a sweep has at most one
\* item to process.
NextRestart ==
    \/ LockedRedditScraperJobFires
    \/ SentimentAnalysisJobFires
    \/ \E j \in LockedJobs, i \in 1..MaxOverlap, n \in 0..1 :
          ReadResolves(j, i, n)
    \/ \E j \in LockedJobs, i \in 1..MaxOverlap : ReadRejects(j, i)
    \/ \E j \in LockedJobs, i \in 1..MaxOverlap : FetchResponds(j, i)
    \/ \E j \in LockedJobs, i \in 1..MaxOverlap : FetchRejects(j, i)
    \/ \E j \in LockedJobs, i \in 1..MaxOverlap : WriteSettles(j, i)
    \/ \E j \in LockedJobs : stopJob(j)
    \/ \E j \in LockedJobs : startJob(j)

SpecRestart == Init /\ [][NextRestart]_vars

----------------------------------------------------------------------------
(* Specification of the telemetry wrapper: outbound calls are wrapped one    *)
(* after the other, while the log writes of earlier calls are still pending. *)

NextLog ==
    \/ \E service \in SERVICES, summary \in Summaries :
          withLogging(service, summary)
    \/ \E response \in AxiosResponses : AxiosResolves(response)
    \/ \E error \in AxiosErrors : AxiosRejects(error)
    \/ \E i \in 1..MaxLogs, ok \in BOOLEAN : getServiceId(i, ok)
    \/ \E i \in 1..MaxLogs, ok \in BOOLEAN : logApiRequest(i, ok)

SpecLog == Init /\ [][NextLog]_vars

----------------------------------------------------------------------------
(* Discovery of the posts of one ticker: getStockByParam and                *)
(* refreshStockInBackground of the stock lookup, scrapeSubredditPosts of     *)
(* services/redditService.js.  Each finds a row and then creates it when it *)
(* was not found, in two awaited statements; tables stocks and reddit_posts *)
(* carry a unique index (symbol, redditId), so a create of a row that       *)
(* exists by then is rejected.                                               *)

\* The posts a search or a subreddit listing may return, in order.
SearchResults == {<<>>, <<1>>, <<1, 2>>}

nonDiscoverVars ==
    <<poolVars, fetchVars, freshVars, now, ingestVars, jobVars, logVars,
      promptVars, scriptVars>>

\* What a discovery writes leaves everything but reddit_posts.postTime.
DiscoverFrame ==
    UNCHANGED <<poolVars, fetchVars, now, scrapedAt, postsToScrape,
                lastFilter, ingestVars, jobVars, logVars, promptVars,
                scriptVars>>

\* The operation returns or its promise settles; outcome tells how.
Ended(d, outcome) ==
    [discoveries EXCEPT ![d].pc = "ended", ![d].outcome = outcome]

\* The loop over result.posts goes on to the next post, or the operation
\* returns after the last one.
NextPost(d, newPostIds) ==
    LET rest == Tail(discoveries[d].posts) IN
    [discoveries EXCEPT ![d].posts = rest,
                        ![d].newPostIds = newPostIds,
                        ![d].pc = IF rest = <<>> THEN "ended"
                                  ELSE "findPost",
                        ![d].outcome = IF rest = <<>> THEN "returned"
                                       ELSE @]

\* The API lookup of the ticker starts: it awaits stock.findUnique.
getStockByParam(d) ==
    /\ discoveries[d].pc = "idle"
    /\ discoveries' = [discoveries EXCEPT ![d] =
           [NoDiscovery EXCEPT !.kind = "getStockByParam",
                               !.pc = "findStock"]]
    /\ UNCHANGED <<nonDiscoverVars, stocks>>

\* stock.findUnique resolves: with the row, and the lookup goes on to read
\* the stock's posts, or with null, and the lookup goes on to create it.
StockFindUnique(d) ==
    /\ discoveries[d].pc = "findStock"
    /\ discoveries' = [discoveries EXCEPT ![d].pc =
           IF stocks > 0 THEN "findMany" ELSE "createStock"]
    /\ UNCHANGED <<nonDiscoverVars, stocks>>

\* stock.create settles: the row is inserted, or the unique index on symbol
\* rejects it, the catch logs the error and the lookup returns no posts.
StockCreate(d) ==
    /\ discoveries[d].pc = "createStock"
    /\ IF stocks > 0
         THEN /\ discoveries' = Ended(d, "noStock")
              /\ UNCHANGED stocks
         ELSE /\ stocks' = stocks + 1
              /\ discoveries' = [discoveries EXCEPT ![d].pc = "findMany"]
    /\ UNCHANGED nonDiscoverVars

\* redditPost.findMany resolves: when a post has content the lookup returns
\* the stored posts and refreshStockInBackground carries on; otherwise the
\* lookup itself searches.
RedditPostFindMany(d) ==
    /\ discoveries[d].pc = "findMany"
    /\ discoveries' = [discoveries EXCEPT
           ![d].pc = "search",
           ![d].kind = IF \E p \in ScrapePosts : /\ postTime[p] # Null
                                                 /\ postContent[p] # Null
                         THEN "refreshStockInBackground"
                         ELSE @]
    /\ UNCHANGED <<nonDiscoverVars, stocks>>

\* The subreddit sweep lists the official subreddit of the stored stock.
scrapeSubredditPosts(d) ==
    /\ discoveries[d].pc = "idle"
    /\ stocks > 0
    /\ discoveries' = [discoveries EXCEPT ![d] =
           [NoDiscovery EXCEPT !.kind = "scrapeSubredditPosts",
                               !.pc = "search"]]
    /\ UNCHANGED <<nonDiscoverVars, stocks>>

\* searchRedditStock, or the listing of the subreddit, resolves with posts.
SearchResolves(d, result) ==
    /\ discoveries[d].pc = "search"
    /\ discoveries' = [discoveries EXCEPT
           ![d].result = result,
           ![d].posts = result,
           ![d].pc = IF result = <<>> THEN "ended" ELSE "findPost",
           ![d].outcome = IF result = <<>> THEN "returned" ELSE @]
    /\ UNCHANGED <<nonDiscoverVars, stocks>>

\* The search rejects: the lookup rethrows, the refresh and the subreddit
\* listing log the error.
SearchRejects(d) ==
    /\ discoveries[d].pc = "search"
    /\ discoveries' = Ended(d, "searchFailed")
    /\ UNCHANGED <<nonDiscoverVars, stocks>>

\* redditPost.findUnique resolves with the row of the post or with null.
RedditPostFindUnique(d) ==
    /\ discoveries[d].pc = "findPost"
    /\ discoveries' = [discoveries EXCEPT ![d].pc =
           IF postTime[Head(discoveries[d].posts)] # Null THEN "updatePost"
           ELSE "createPost"]
    /\ UNCHANGED <<nonDiscoverVars, stocks>>

\* redditPost.update resolves: url and postTime are written again.
RedditPostUpdate(d) ==
    /\ discoveries[d].pc = "updatePost"
    /\ postTime' = [postTime EXCEPT ![Head(discoveries[d].posts)] = 0]
    /\ discoveries' = NextPost(d, discoveries[d].newPostIds)
    /\ UNCHANGED stocks
    /\ DiscoverFrame

\* redditPost.create settles: the row is inserted, or the unique index on
\* redditId rejects it.  The lookup and the subreddit listing catch the
\* error per post and go on; the refresh has one catch around its loop, so
\* it stops there.
RedditPostCreate(d) ==
    /\ discoveries[d].pc = "createPost"
    /\ LET post == Head(discoveries[d].posts) IN
       IF postTime[post] # Null
         THEN /\ discoveries' =
                   IF discoveries[d].kind = "refreshStockInBackground"
                     THEN Ended(d, "refreshFailed")
                     ELSE NextPost(d, discoveries[d].newPostIds)
              /\ UNCHANGED postTime
         ELSE /\ postTime' = [postTime EXCEPT ![post] = 0]
              /\ discoveries' =
                   NextPost(d, discoveries[d].newPostIds \cup {post})
    /\ UNCHANGED stocks
    /\ DiscoverFrame

\* The caller has the outcome; the slot is free for another operation.
DiscoveryOver(d) ==
    /\ discoveries[d].pc = "ended"
    /\ discoveries' = [discoveries EXCEPT ![d] = NoDiscovery]
    /\ UNCHANGED <<nonDiscoverVars, stocks>>

\* Post 1 and its content are stored with the stock, or nothing is.
InitDiscover ==
    /\ PoolInit
    /\ FetchInit
    /\ TreeIdle
    /\ JobsIdle
    /\ LogIdle
    /\ PromptIdle
    /\ ScriptIdle
    /\ now = 0
    /\ postsToScrape = <<>>
    /\ lastFilter = [at |-> Null, due |-> {}]
    /\ redditComments = <<>>
    /\ scrapes = [t \in Tasks |-> NoScrape]
    /\ attempted = {}
    /\ commentLog = NoCommentLog
    /\ persisted = [p \in ScrapePosts |-> NeverPersisted]
    /\ scoring = NoScoring
    /\ scoreLog = NoScoreLog
    /\ discoveries = [d \in Discoveries |-> NoDiscovery]
    /\ \E stored \in BOOLEAN :
         /\ stocks = IF stored THEN 1 ELSE 0
         /\ postTime = [p \in ScrapePosts |->
                          IF stored /\ p = 1 THEN 0 ELSE Null]
         /\ scrapedAt = postTime
         /\ postContent = postTime

NextDiscover ==
    \/ \E d \in Discoveries : getStockByParam(d)
    \/ \E d \in Discoveries : StockFindUnique(d)
    \/ \E d \in Discoveries : StockCreate(d)
    \/ \E d \in Discoveries : RedditPostFindMany(d)
    \/ \E d \in Discoveries : scrapeSubredditPosts(d)
    \/ \E d \in Discoveries, result \in SearchResults :
         SearchResolves(d, result)
    \/ \E d \in Discoveries : SearchRejects(d)
    \/ \E d \in Discoveries : RedditPostFindUnique(d)
    \/ \E d \in Discoveries : RedditPostUpdate(d)
    \/ \E d \in Discoveries : RedditPostCreate(d)
    \/ \E d \in Discoveries : DiscoveryOver(d)

SpecDiscover == InitDiscover /\ [][NextDiscover]_vars

----------------------------------------------------------------------------
(* Specification of the extractor and the scorer on one comment table: the  *)
(* freshness sweep scrapes post 1 again and again as the clock passes its    *)
(* interval, while calcSentiment scores the comments stored.                 *)

\* The replies the requests of this specification get for post 1: the same
\* comment, with a body and a score that change between two scrapes.
SharedResponses ==
    { PlainResponse(1),
      <<Child("t1", 1, 2, Body("b", 10), {}, "empty", <<>>)>> }

\* The replies of the scoring model: both fields, or none.
SharedReplies ==
    { PlainReply,
      [has |-> {}, sentiment |-> 100, flagForDelete |-> FALSE],
      [has |-> {"sentiment", "flagForDelete"}, sentiment |-> -100,
       flagForDelete |-> TRUE] }

\* The instants the clock is read at: the interval of a post of less than a
\* day, once and twice.
SharedInstants == {10 * MS_PER_MINUTE, 20 * MS_PER_MINUTE}

NextShared ==
    \/ scrapeRedditPostContent
    \/ ScrapeBegin("sweep", FALSE)
    \/ \E response \in SharedResponses : ScrapeFetched("sweep", response)
    \/ ContentUpsert("sweep", TRUE)
    \/ CommentUpsert("sweep", TRUE)
    \/ PostUpdate("sweep", TRUE)
    \/ calcSentiment
    \/ \E parsedResponse \in SharedReplies : AnalyzeReturns(parsedResponse)
    \/ SentimentUpdate(TRUE)
    \/ \E t \in SharedInstants : AdvanceClock(t)

SpecShared == InitCadence /\ [][NextShared]_vars

----------------------------------------------------------------------------
(* Specification of the proxy manager behind a start-up that awaits          *)
(* initializeProxies: its promise settles after the await of                 *)
(* validateAllProxies, so the first getNextProxyAgent() call comes after the *)
(* last probe.  No request fails afterwards: a failure record is that of a   *)
(* probe.                                                                    *)

\* getNextProxyAgent() called once initializeProxies has settled.
CallAfterStartup ==
    /\ initialized
    /\ validating = 0
    /\ getNextProxyAgent

NextBoot ==
    \/ \E n \in 0..MaxProxies : initializeProxies(n)
    \/ \E ok \in BOOLEAN : validateProxy(ok)
    \/ CallAfterStartup
    \/ \E d \in TickSteps : Tick(d)

SpecBoot == Init /\ [][NextBoot]_vars

----------------------------------------------------------------------------
(* Specification of the freshness sweep retrying a post: post 1 is stored,  *)
(* the sweep scrapes it while requests fail or answer without the post, and *)
(* the clock moves to the instants around the first age limit and to the    *)
(* last one.                                                                 *)

\* The instants the clock is read at: 10 minutes before the post is a day
\* old, the last instant before that, 10 minutes after it, and the age limit.
RetryInstants ==
    {MS_PER_DAY - 1 - 10 * MS_PER_MINUTE, MS_PER_DAY - 1,
     MS_PER_DAY + 10 * MS_PER_MINUTE, MAX_POST_AGE_MS}

NextRetry ==
    \/ scrapeRedditPostContent
    \/ ScrapeBegin("sweep", FALSE)
    \/ ScrapeFetched("sweep", PlainResponse(1))
    \/ \E error \in Errors : ScrapeFetchFails("sweep", error)
    \/ ScrapeNoPostData("sweep")
    \/ ContentUpsert("sweep", TRUE)
    \/ CommentUpsert("sweep", TRUE)
    \/ PostUpdate("sweep", TRUE)
    \/ \E t \in RetryInstants : AdvanceClock(t)

SpecRetry == InitCadence /\ [][NextRetry]_vars

----------------------------------------------------------------------------
(* Specification of the comment loop of one scrape: the sweep scrapes post  *)
(* 1, whose response holds two comments that pass the persist filter; the    *)
(* upsert of either may be rejected.                                        *)

NextSkip ==
    \/ scrapeRedditPostContent
    \/ ScrapeBegin("sweep", FALSE)
    \/ ScrapeFetched("sweep", TwoComments(1))
    \/ ContentUpsert("sweep", TRUE)
    \/ \E ok \in BOOLEAN : CommentUpsert("sweep", ok)
    \/ PostUpdate("sweep", TRUE)
    \/ \E t \in SharedInstants : AdvanceClock(t)

SpecSkip == InitCadence /\ [][NextSkip]_vars

----------------------------------------------------------------------------
(* Specification of a scoring sweep that fails or stops: the scoring call   *)
(* or the update of any comment may fail, and the process may exit at any   *)
(* await of the loop.                                                        *)

NextStop ==
    \/ calcSentiment
    \/ \E parsedResponse \in SharedReplies : AnalyzeReturns(parsedResponse)
    \/ AnalyzeReturnsNull
    \/ \E failure \in ScoringFailures : AnalyzeFails(failure)
    \/ \E ok \in BOOLEAN : SentimentUpdate(ok)
    \/ ProcessExits

SpecStop == InitScore /\ [][NextStop]_vars

\* A run of the script beside the scheduled sweep.
NextManual ==
    \/ calcSentiment
    \/ \E parsedResponse \in SharedReplies : AnalyzeReturns(parsedResponse)
    \/ AnalyzeReturnsNull
    \/ \E failure \in ScoringFailures : AnalyzeFails(failure)
    \/ \E ok \in BOOLEAN : SentimentUpdate(ok)
    \/ runTest
    \/ \E parsedResponse \in SharedReplies :
          ManualAnalyzeReturns(parsedResponse)
    \/ ManualAnalyzeFails
    \/ \E ok \in BOOLEAN : ManualSentimentUpdate(ok)

SpecManual == InitScore /\ [][NextManual]_vars

----------------------------------------------------------------------------
(* services/sentimentService.js: the scoring procedure that the system       *)
(* message of analyzeSentiment lays down, step by step.  Values are held in *)
(* thousandths (900 stands for +0.90) until step 4 rounds them to           *)
(* hundredths.                                                               *)

\* Step 1: the base values.
BaseValues == {900, 650, 300, 0, -300, -650, -900}

\* The vote counts followed: the ends of the brackets of step 3, a count
\* within the first and the last bracket, and downvotes.
VoteCounts == {-150, -100, -6, 0, 3, 5, 6, 20, 21, 50, 51, 100, 101, 150}

KeywordIncrease_Uncapped(occurrences) == 20 * occurrences

\* Step 2, bullish words: each occurrence +0.02, maximum total +0.10.
KeywordIncrease(occurrences) ==
    IF 20 * occurrences > 100 THEN 100 ELSE 20 * occurrences

\* Step 2, bearish words: each occurrence -0.02, maximum total -0.10.
KeywordDecrease(occurrences) ==
    IF 20 * occurrences > 100 THEN 100 ELSE 20 * occurrences

\* The number of upvotes or downvotes of a vote count.
Magnitude(votes) == IF votes < 0 THEN -votes ELSE votes

VoteBrackets_Disjoint(n) ==
    {b \in { [lines |-> "0-5",    applies |-> n >= 0 /\ n <= 5,    size |-> 0],
             [lines |-> "6-20",   applies |-> n >= 6 /\ n <= 20,   size |-> 20],
             [lines |-> "21-50",  applies |-> n >= 21 /\ n <= 50,  size |-> 40],
             [lines |-> "51-100", applies |-> n >= 51 /\ n <= 100, size |-> 50],
             [lines |-> "100+",   applies |-> n > 100,             size |-> 80] } :
        b.applies}

\* Step 3: the lines of the table that hold for a number of upvotes or
\* downvotes, each with the size of its adjustment.
VoteBrackets(n) ==
    {b \in { [lines |-> "0-5",    applies |-> n >= 0 /\ n <= 5,    size |-> 0],
             [lines |-> "6-20",   applies |-> n >= 6 /\ n <= 20,   size |-> 20],
             [lines |-> "21-50",  applies |-> n >= 21 /\ n <= 50,  size |-> 40],
             [lines |-> "51-100", applies |-> n >= 51 /\ n <= 100, size |-> 50],
             [lines |-> "100+",   applies |-> n >= 100,            size |-> 80] } :
        b.applies}

\* Step 4: above 1 set to 1, below -1 set to -1.
Clamped(value) ==
    IF value > 1000 THEN 1000 ELSE IF value < -1000 THEN -1000 ELSE value

\* Step 4: round to 2 decimal places; the result is in hundredths.
Rounded(value) ==
    IF value >= 0 THEN (value + 5) \div 10 ELSE -((5 - value) \div 10)

nonPromptVars ==
    <<poolVars, fetchVars, freshVars, now, ingestVars, jobVars, logVars,
      discoverVars, scriptVars>>

\* Step 2: the keyword occurrences are added and subtracted.
KeywordStep ==
    /\ procedure.step = 1
    /\ procedure' =
          [procedure EXCEPT
             !.step = 2,
             !.increase = KeywordIncrease(procedure.bullish),
             !.decrease = KeywordDecrease(procedure.bearish),
             !.value = @ + KeywordIncrease(procedure.bullish)
                         - KeywordDecrease(procedure.bearish)]
    /\ UNCHANGED nonPromptVars

\* Step 3: the adjustment of a line of the table that holds for the vote
\* count is added for upvotes and subtracted for downvotes.
VoteStep(bracket) ==
    /\ procedure.step = 2
    /\ bracket \in VoteBrackets(Magnitude(procedure.votes))
    /\ procedure' =
          [procedure EXCEPT
             !.step = 3,
             !.adjustment = bracket.size,
             !.value = IF procedure.votes < 0 THEN @ - bracket.size
                       ELSE @ + bracket.size]
    /\ UNCHANGED nonPromptVars

\* Step 4: the value is clamped, and rounded to 2 decimal places.
ClampStep ==
    /\ procedure.step = 3
    /\ procedure' =
          [procedure EXCEPT !.step = 4,
                            !.sentiment = Rounded(Clamped(procedure.value))]
    /\ UNCHANGED nonPromptVars

\* A comment is given to the procedure and step 1 has assigned its base.
InitPrompt ==
    /\ PoolInit
    /\ FetchInit
    /\ FreshIdle
    /\ TreeIdle
    /\ ScrapeIdle
    /\ JobsIdle
    /\ LogIdle
    /\ DiscoverIdle
    /\ ScriptIdle
    /\ now = 0
    /\ \E base \in BaseValues, bullish \in 0..MaxOccurrences,
          bearish \in 0..MaxOccurrences, votes \in VoteCounts :
          procedure = [NoProcedure EXCEPT !.step = 1, !.base = base,
                                          !.bullish = bullish,
                                          !.bearish = bearish,
                                          !.votes = votes, !.value = base]

NextPrompt ==
    \/ KeywordStep
    \/ \E bracket \in VoteBrackets(Magnitude(procedure.votes)) :
          VoteStep(bracket)
    \/ ClampStep

SpecPrompt == InitPrompt /\ [][NextPrompt]_vars

----------------------------------------------------------------------------
(* Properties of the proxy manager *)

\* The proxy was marked failed and no more than the cooldown has passed since.
InCooldown(p) ==
    /\ proxyHealth[p].known
    /\ ~proxyHealth[p].healthy
    /\ now - proxyHealth[p].lastFailure <= COOLDOWN_MS

AllInCooldown == \A i \in 1..Len(proxyList) : InCooldown(proxyList[i])

\* C1: a getNextProxyAgent() call never returns a proxy whose last failure
\* lies within the cooldown window, unless every configured proxy is within
\* its cooldown window at that moment.
C1_NextAvoidsCooldown ==
    [][getNextProxyAgent =>
          ((lastNext'.proxy # 0 /\ InCooldown(lastNext'.proxy)) => AllInCooldown)]_vars

\* A call has skipped proxy 1, which is in its cooldown, and returned proxy 2.
C1_Witness ==
    /\ Len(proxyList) = 2
    /\ lastNext.called /\ lastNext.proxy = 2 /\ ~lastNext.fallback
    /\ currentIndex = 0
    /\ InCooldown(1) /\ ~InCooldown(2)

\* C2 as claimed: with no proxy available, getNextProxyAgent() returns the
\* entry at the cursor the scan started from.
C2_FallbackAtCursor ==
    [][(getNextProxyAgent /\ Len(proxyList) > 0 /\ AllInCooldown) =>
          lastNext'.proxy = proxyList[currentIndex + 1]]_vars

\* C2 amended: with no proxy available, getNextProxyAgent() returns the first
\* entry of the list whatever the cursor is, and leaves the cursor where the
\* scan started.
C2_FallbackFirstEntry ==
    [][(getNextProxyAgent /\ Len(proxyList) > 0 /\ AllInCooldown) =>
          /\ lastNext'.fallback
          /\ lastNext'.proxy = proxyList[1]
          /\ currentIndex' = currentIndex]_vars

\* The fallback has returned the first entry while the cursor is elsewhere.
C2_Witness ==
    /\ Len(proxyList) > 1
    /\ AllInCooldown
    /\ lastNext.called /\ lastNext.fallback /\ lastNext.proxy = proxyList[1]
    /\ currentIndex # 0

\* C3 as claimed: a proxy is available exactly when it has no health record,
\* or is healthy, or at least the cooldown has passed since its last failure
\* (the instant elapsed = cooldown included).
C3_AvailableAtCooldown ==
    \A p \in Proxies :
        isProxyAvailable(p) <=>
            \/ ~proxyHealth[p].known
            \/ proxyHealth[p].healthy
            \/ now - proxyHealth[p].lastFailure >= COOLDOWN_MS

\* C3 amended: a proxy is available exactly when it has no health record, or
\* is healthy, or strictly more than the cooldown has passed since its last
\* failure; at the instant elapsed = cooldown it is still unavailable.
C3_AvailableAfterCooldown ==
    \A p \in Proxies :
        /\ isProxyAvailable(p) <=>
              \/ proxyHealth[p] = NoHealth
              \/ proxyHealth[p] = HealthyRecord
              \/ /\ proxyHealth[p] = FailedRecord(proxyHealth[p].lastFailure)
                 /\ now - proxyHealth[p].lastFailure > COOLDOWN_MS
        /\ (proxyHealth[p].known /\ ~proxyHealth[p].healthy
                /\ now - proxyHealth[p].lastFailure = COOLDOWN_MS)
              => ~isProxyAvailable(p)

\* Exactly the cooldown after proxy 1 failed, a call has passed it over.
C3_Witness ==
    /\ Len(proxyList) = 2
    /\ proxyHealth[1].known /\ ~proxyHealth[1].healthy
    /\ now - proxyHealth[1].lastFailure = COOLDOWN_MS
    /\ ~isProxyAvailable(1)
    /\ lastNext.called /\ lastNext.proxy = 2 /\ currentIndex = 0
    /\ proxyHealth[2] = NoHealth

\* C4: with a non-empty list and some proxy available, getNextProxyAgent()
\* returns the first available entry in cyclic order from the cursor, having
\* looked at no more than Len(proxyList) entries, and leaves the cursor just
\* past it; and Len(proxyList) consecutive calls made while all proxies are
\* available return every list entry exactly once.
C4_RoundRobin ==
    /\ [][(getNextProxyAgent /\ Len(proxyList) > 0 /\ ~AllInCooldown) =>
            \E k \in 0..(Len(proxyList) - 1) :
                /\ \A j \in 0..(k - 1) :
                      InCooldown(proxyList[((currentIndex + j) % Len(proxyList)) + 1])
                /\ ~InCooldown(proxyList[((currentIndex + k) % Len(proxyList)) + 1])
                /\ lastNext'.proxy = proxyList[((currentIndex + k) % Len(proxyList)) + 1]
                /\ ~lastNext'.fallback
                /\ currentIndex' = (currentIndex + k + 1) % Len(proxyList)]_vars
    /\ []((Len(proxyList) > 0 /\ Len(rotation) = Len(proxyList)) =>
            /\ {rotation[i] : i \in 1..Len(rotation)} = 1..Len(proxyList)
            /\ \A i \in 1..(Len(rotation) - 1) :
                  rotation[i + 1] = (rotation[i] % Len(proxyList)) + 1)

\* A full rotation over two available proxies has been handed out.
C4_Witness ==
    /\ Len(proxyList) = 2
    /\ Len(rotation) = 2
    /\ rotation[1] # rotation[2]

----------------------------------------------------------------------------
(* Specification of the outbound calls of redditService.js: proxies are    *)
(* marked failed only by the catch blocks of the calls.                    *)

NextFetch ==
    \/ \E n \in 0..MaxProxies : initializeProxies(n)
    \/ \E ok \in BOOLEAN : validateProxy(ok)
    \/ \E c \in 1..MaxCalls : CallBegin(c)
    \/ \E c \in 1..MaxCalls : CallSucceeds(c)
    \/ \E c \in 1..MaxCalls : \E error \in Errors : CallFails(c, error)
    \/ TickWindow

SpecFetch == Init /\ [][NextFetch]_vars

----------------------------------------------------------------------------
(* Properties of the outbound calls *)

\* Call c ends in this step with an error handed to its caller.
FailureSurfaced(c) ==
    /\ calls[c].phase = "inflight"
    /\ calls'[c].phase = "idle"
    /\ lastOutcome'.kind = "error"

ConnectionLevelCodes ==
    {"ECONNREFUSED", "ECONNRESET", "ETIMEDOUT", "ENOTFOUND", "ENETUNREACH",
     "EHOSTUNREACH", "EPROTO", "EPIPE", "ERR_SOCKET_CLOSED"}

\* C5: a failed outbound call changes the proxy health map only if its error
\* is connection-level or HTTP 407; any other failure, such as an upstream
\* 403, 429 or 500, leaves the health map unchanged.
C5_OnlyProxyErrorsDemote ==
    [][\A c \in 1..MaxCalls :
          (FailureSurfaced(c) /\ proxyHealth' # proxyHealth) =>
              \/ lastOutcome'.code \in ConnectionLevelCodes
              \/ lastOutcome'.status = 407]_vars

\* A call through a proxy has failed with 403 and no proxy has a failure on
\* record (the validation pass has not yet probed any).
C5_Witness ==
    /\ Len(proxyList) > 0
    /\ currentIndex # 0
    /\ \A c \in 1..MaxCalls : calls[c].phase = "idle"
    /\ lastOutcome.kind = "error" /\ lastOutcome.status = 403
    /\ validating = 1
    /\ \A p \in Proxies : proxyHealth[p] = NoHealth

\* C6: when an outbound call ends with a proxy-classified error, then in the
\* state in which the failure reaches the caller exactly the proxy handed out
\* for that call is marked failed at the current time, every other health
\* record, the cursor and the list are unchanged, and a call over a direct
\* connection marks nothing.
C6_MarksTheProxyUsed ==
    [][\A c \in 1..MaxCalls :
          (FailureSurfaced(c)
              /\ isProxyError([code |-> lastOutcome'.code,
                               status |-> lastOutcome'.status])) =>
              /\ IF calls[c].proxy = 0
                 THEN proxyHealth' = proxyHealth
                 ELSE /\ proxyHealth'[calls[c].proxy] = FailedRecord(now)
                      /\ \A q \in Proxies \ {calls[c].proxy} :
                            proxyHealth'[q] = proxyHealth[q]
              /\ currentIndex' = currentIndex
              /\ proxyList' = proxyList]_vars

\* A call through proxy 1 has failed with a reset connection: proxy 1 alone
\* is marked failed (no validation probe has run) and the cursor, which the
\* call left at proxy 2, has not moved.
C6_Witness ==
    /\ Len(proxyList) = 2
    /\ validating = 1
    /\ \A c \in 1..MaxCalls : calls[c].phase = "idle"
    /\ lastOutcome.kind = "error" /\ lastOutcome.code = "ECONNRESET"
    /\ proxyHealth[1] = FailedRecord(now)
    /\ proxyHealth[2] = NoHealth
    /\ currentIndex = 1

----------------------------------------------------------------------------
(* Properties of the freshness rule *)

Age(p) == now - postTime[p]

\* The sweep has just filtered the posts, and has scraped none since.
JustFiltered == lastFilter.at = now /\ postsToScrape = InOrder(lastFilter.due)

\* C7: a post whose age is at least MAX_AGE (7 days) is never due, whether
\* it was scraped before or not.
C7_TooOldNeverDue ==
    \A p \in Posts :
        Age(p) >= 7 * 24 * 60 * 60 * 1000 =>
            /\ ~shouldScrapePost(Post(p))
            /\ JustFiltered => p \notin lastFilter.due

\* The sweep has passed over a never-scraped post aged exactly 7 days, and
\* over one scraped more than a day before.
C7_Witness ==
    /\ JustFiltered
    /\ \E p \in Posts :
          /\ Age(p) = MAX_POST_AGE_MS
          /\ scrapedAt[p] = Null
          /\ p \notin lastFilter.due

\* C8: a post that was never scraped and is younger than MAX_AGE is due.
C8_NeverScrapedIsDue ==
    \A p \in Posts :
        (scrapedAt[p] = Null /\ Age(p) < 7 * 24 * 60 * 60 * 1000) =>
            /\ shouldScrapePost(Post(p))
            /\ JustFiltered => p \in lastFilter.due

\* The sweep has selected a never-scraped post one millisecond short of
\* MAX_AGE.
C8_Witness ==
    /\ JustFiltered
    /\ \E p \in Posts :
          /\ Age(p) = MAX_POST_AGE_MS - 1
          /\ scrapedAt[p] = Null
          /\ p \in lastFilter.due

\* The interval of the age bucket, as the documentation gives it.
BucketInterval(age) ==
    IF age < 24 * 60 * 60 * 1000 THEN 10 * 60 * 1000
    ELSE IF age < 3 * 24 * 60 * 60 * 1000 THEN 60 * 60 * 1000
    ELSE 24 * 60 * 60 * 1000

\* C9: a previously scraped post younger than MAX_AGE is due exactly when the
\* time since its last scrape is at least the interval of its age bucket
\* (below 1 day: 10 minutes; below 3 days: 1 hour; below 7 days: 1 day), an
\* age of exactly 1 day or 3 days belonging to the older bucket.
C9_DueByBucketInterval ==
    \A p \in Posts :
        (scrapedAt[p] # Null /\ Age(p) < 7 * 24 * 60 * 60 * 1000) =>
            /\ shouldScrapePost(Post(p)) <=>
                  now - scrapedAt[p] >= BucketInterval(Age(p))
            /\ JustFiltered =>
                  (p \in lastFilter.due <=>
                      now - scrapedAt[p] >= BucketInterval(Age(p)))

\* The sweep has passed over a post aged exactly 1 day that was scraped more
\* than 10 minutes but less than 1 hour before.
C9_Witness ==
    /\ JustFiltered
    /\ \E p \in Posts :
          /\ Age(p) = MS_PER_DAY
          /\ scrapedAt[p] # Null
          /\ now - scrapedAt[p] > 10 * MS_PER_MINUTE
          /\ now - scrapedAt[p] < MS_PER_HOUR
          /\ p \notin lastFilter.due

\* C10 as claimed: a post that is due stays due at every later time, as long
\* as it is not scraped again.
C10_DueStaysDue ==
    [][\A p \in Posts :
          (shouldScrapePost(Post(p)) /\ now' > now
              /\ scrapedAt'[p] = scrapedAt[p] /\ postTime'[p] = postTime[p]) =>
              shouldScrapePost(Post(p))']_vars

\* The age bucket of a post: 1, 2, 3, or 4 for too old.
Bucket(age) ==
    IF age < 24 * 60 * 60 * 1000 THEN 1
    ELSE IF age < 3 * 24 * 60 * 60 * 1000 THEN 2
    ELSE IF age < 7 * 24 * 60 * 60 * 1000 THEN 3
    ELSE 4

\* C10 amended: a post that is due stays due at every later time at which it
\* has not been scraped again and is younger than MAX_AGE, provided it was
\* never scraped or is still in the age bucket in which it was due.
C10_DueStaysDueInBucket ==
    [][\A p \in Posts :
          (shouldScrapePost(Post(p)) /\ now' > now
              /\ scrapedAt'[p] = scrapedAt[p] /\ postTime'[p] = postTime[p]
              /\ now' - postTime[p] < 7 * 24 * 60 * 60 * 1000
              /\ (scrapedAt[p] = Null
                    \/ Bucket(now' - postTime[p]) = Bucket(now - postTime[p]))) =>
              shouldScrapePost(Post(p))']_vars

\* A scraped post that the sweep found due at an earlier instant, in the
\* same age bucket, has not been scraped since and is still due.
C10_Witness ==
    \E p \in Posts :
        /\ lastFilter.at # Null /\ lastFilter.at < now
        /\ p \in lastFilter.due
        /\ scrapedAt[p] # Null /\ scrapedAt[p] < lastFilter.at
        /\ Bucket(Age(p)) = Bucket(lastFilter.at - postTime[p])
        /\ shouldScrapePost(Post(p))

\* The ages a rule covers start at the ceiling of the rule before it.
RuleFloor(i) == IF i = 1 THEN 0 ELSE SCRAPE_INTERVALS[i - 1].maxAgeMs

\* The rules whose range of ages holds the age.
RulesCovering(age) ==
    {i \in 1..Len(SCRAPE_INTERVALS) :
        RuleFloor(i) <= age /\ age < SCRAPE_INTERVALS[i].maxAgeMs}

\* C11: the age-bucket rules have strictly ascending age ceilings and their
\* ranges partition the ages below MAX_AGE: the rule shouldScrapePost finds
\* for a post younger than MAX_AGE is the one rule whose range holds the
\* post's age, so that past the MAX_AGE cutoff 'no rule matches' cannot happen.
C11_RulesPartitionAges ==
    /\ \A i \in 1..(Len(SCRAPE_INTERVALS) - 1) :
          SCRAPE_INTERVALS[i].maxAgeMs < SCRAPE_INTERVALS[i + 1].maxAgeMs
    /\ \A p \in Posts :
          IF Age(p) < 7 * 24 * 60 * 60 * 1000
          THEN /\ FindRule(Age(p)) # 0
               /\ RulesCovering(Age(p)) = {FindRule(Age(p))}
          ELSE RulesCovering(Age(p)) = {}

\* The sweep has filtered a scraped post one millisecond short of MAX_AGE,
\* which the last rule covers.
C11_Witness ==
    /\ JustFiltered
    /\ \E p \in Posts :
          /\ scrapedAt[p] # Null
          /\ Age(p) = MAX_POST_AGE_MS - 1
          /\ FindRule(Age(p)) = Len(SCRAPE_INTERVALS)

----------------------------------------------------------------------------
(* Properties of extractAllComments *)

Recs == allComments.comments

ForestNodes == DOMAIN commentsData.parent

CommentNodes == {x \in ForestNodes : commentsData.kind[x] = "t1"}

\* The nesting level of a node: 0 for a node of the top listing.
NestingLevel(x) == LevelIn(commentsData.parent, x, Cardinality(ForestNodes))

RecordsOf(id) == {i \in 1..Len(Recs) : Recs[i].comment_id = id}

\* The number of parent_id links to follow from the record of id to reach
\* the post, -1 if the links do not lead there.
RECURSIVE LinkSteps(_, _)
LinkSteps(id, fuel) ==
    IF id = PostName THEN 0
    ELSE IF fuel = 0 \/ RecordsOf(id) = {} THEN -1
    ELSE LET r == Recs[CHOOSE i \in RecordsOf(id) : TRUE]
             up == LinkSteps(r.parent_id, fuel - 1)
         IN  IF up = -1 THEN -1 ELSE up + 1

\* Every record carries the nesting level and the immediate parent of its
\* comment, and its parent_id links lead to the post in depth + 1 steps.
RecordsThreaded ==
    \A i \in 1..Len(Recs) :
        LET r == Recs[i]
            x == r.comment_id
        IN  /\ x \in ForestNodes
            /\ r.depth = NestingLevel(x)
            /\ r.parent_id = IF commentsData.parent[x] = 0 THEN PostName
                             ELSE commentsData.parent[x]
            /\ LinkSteps(x, Cardinality(ForestNodes) + 1) = r.depth + 1

\* C12 as claimed: for every reply forest with N nodes the extractor gives
\* exactly N records, each with depth = nesting level and parentId = the
\* immediate parent (the post at depth 0), the parentId links reaching the
\* post in exactly depth + 1 steps.
C12_OneRecordPerNode ==
    allComments.called =>
        /\ Len(Recs) = Cardinality(ForestNodes)
        /\ RecordsThreaded

\* C12 amended: the extractor gives exactly one record per comment node
\* (kind t1) of the forest and none for any other node, each record with
\* depth = nesting level and parentId = the immediate parent (the post at
\* depth 0), the parentId links reaching the post in exactly depth + 1 steps.
C12_OneRecordPerComment ==
    allComments.called =>
        /\ Len(Recs) = Cardinality(CommentNodes)
        /\ \A x \in ForestNodes :
              Cardinality(RecordsOf(x)) = IF x \in CommentNodes THEN 1 ELSE 0
        /\ RecordsThreaded

\* A forest holding a stub beside a comment with a reply has been extracted
\* into two records, the reply at depth 1.
C12_Witness ==
    /\ allComments.called
    /\ Cardinality(ForestNodes) = 3
    /\ Len(Recs) = 2
    /\ \E i \in 1..Len(Recs) : Recs[i].depth = 1

\* a is above d in the forest.
RECURSIVE IsAncestor(_, _, _)
IsAncestor(a, d, fuel) ==
    /\ fuel > 0
    /\ commentsData.parent[d] # 0
    /\ \/ commentsData.parent[d] = a
       \/ IsAncestor(a, commentsData.parent[d], fuel - 1)

Above(a, d) == IsAncestor(a, d, Cardinality(ForestNodes))

\* The place of node x in the order of the source.
SourceIndex(x) ==
    CHOOSE i \in 1..Len(commentsData.order) : commentsData.order[i] = x

\* The place of the record of comment x in the extractor's output.
Pos(x) == CHOOSE i \in RecordsOf(x) : TRUE

\* C13: the extractor's output is the depth-first pre-order of the forest in
\* source order: a comment comes before all its descendants, all descendants
\* of a comment come before its next sibling, siblings keep the order of the
\* source, and a comment whose reply container is missing or empty is
\* recorded as a leaf.
C13_PreOrderInSourceOrder ==
    allComments.called =>
        /\ \A x \in CommentNodes : RecordsOf(x) # {}
        /\ \A a, b \in CommentNodes :
              /\ Above(a, b) => Pos(a) < Pos(b)
              /\ (/\ commentsData.parent[a] = commentsData.parent[b]
                  /\ SourceIndex(a) < SourceIndex(b)) =>
                     /\ Pos(a) < Pos(b)
                     /\ \A d \in CommentNodes : Above(a, d) => Pos(d) < Pos(b)
        /\ \A x \in CommentNodes :
              commentsData.replies[x] \in {"empty", "missing"} =>
                  \A i \in 1..Len(Recs) : Recs[i].parent_id # x

\* A forest presented in descending order of names has been extracted: a
\* comment, then its reply, whose replies field is the empty string, then
\* the comment's next sibling, which has no replies field.
C13_Witness ==
    /\ allComments.called
    /\ commentsData.order = Reversed(3)
    /\ \E a, b, c \in CommentNodes :
          /\ commentsData.parent[a] = 0 /\ commentsData.parent[b] = 0
          /\ commentsData.parent[c] = a
          /\ commentsData.replies[c] = "empty"
          /\ commentsData.replies[b] = "missing"
          /\ Pos(a) = 1 /\ Pos(c) = 2 /\ Pos(b) = 3

----------------------------------------------------------------------------
(* Properties of the comment table *)

Abs(x) == IF x < 0 THEN -x ELSE x

C15_OneRowLatestData ==
    \A id \in DOMAIN persisted :
        /\ Cardinality(RowsOf(id)) <= 1
        /\ Cardinality(RowsOf(id)) = IF persisted[id].written THEN 1 ELSE 0
        /\ \A i \in RowsOf(id) :
              /\ redditComments[i].body = persisted[id].body
              /\ redditComments[i].upvotes = persisted[id].score

\* A comment was written twice with different bodies, and its one row holds
\* the second body.
C15_Witness ==
    \E id \in DOMAIN persisted :
        /\ persisted[id].written
        /\ persisted[id].before # <<>>
        /\ persisted[id].before # persisted[id].body
        /\ Cardinality(RowsOf(id)) = 1
        /\ \A i \in RowsOf(id) : redditComments[i].body = persisted[id].body

----------------------------------------------------------------------------
(* Properties of reddit_posts.scrapedAt and of the sweep *)

\* C16 as claimed: a post's lastScrapedAt never decreases, whatever way the
\* freshness sweep and an on-demand scrape of the same post interleave.
C16_ScrapedAtNeverDecreases ==
    [][\A p \in DOMAIN scrapedAt : scrapedAt'[p] >= scrapedAt[p]]_vars

\* C17: lastScrapedAt of a post changes only in the step that ends a scrape
\* of that post whose fetch, parse and content write succeeded, and takes
\* the time that scrape took after its fetch; discovery and a scrape that
\* fails leave it as it was.
C17_OnlySuccessfulScrapeSetsScrapedAt ==
    [][\A p \in DOMAIN scrapedAt :
          scrapedAt'[p] # scrapedAt[p] =>
              \E t \in Tasks :
                  /\ scrapes[t].pc = "comments"
                  /\ scrapes[t].allComments = <<>>
                  /\ CurrentPost(t) = p
                  /\ postContent[p] # Null
                  /\ scrapedAt'[p] = scrapes[t].now
                  /\ scrapes'[t].pc \in {"idle", "next"}]_vars

\* A scrape has run to its end after the clock advanced: the content row,
\* the comment and lastScrapedAt are written, and both loops are over.
C17_Witness ==
    /\ \A t \in Tasks : scrapes[t].pc = "idle"
    /\ scrapedAt[1] = MaxClock
    /\ postContent[1] = scrapedAt[1]
    /\ commentLog.written

\* C20 as claimed: a failure on one due post never aborts the freshness
\* sweep: when the sweep is over, scrapeSinglePost has been called on every
\* post that was due at its start.
C20_SweepAttemptsEveryDuePost ==
    (scrapes["sweep"].pc = "idle" /\ lastFilter.at # Null) =>
        lastFilter.due \subseteq attempted

----------------------------------------------------------------------------
(* Properties of the scoring sweep *)

\* C18 as claimed: every comment whose sentiment has been set has a
\* sentiment in [-1, 1], whatever the scoring call returned.
C18_SentimentInUnitInterval ==
    \A i \in 1..Len(redditComments) :
        redditComments[i].sentiment.set =>
            /\ redditComments[i].sentiment.value >= -100
            /\ redditComments[i].sentiment.value <= 100

\* C19: a comment whose scoring call failed has none of sentiment, delete
\* flag and scoredAt written, and the sweep goes on: the comments it read and
\* has not attempted are still queued, so that all are attempted at its end.
C19_FailedCallWritesNothing ==
    /\ \A i \in scoreLog.failed :
          /\ ~redditComments[i].sentiment.set
          /\ redditComments[i].flagForDelete = FALSE
          /\ redditComments[i].sentToAIAt = Null
    /\ scoreLog.batch \ scoreLog.attempted \subseteq
          {scoring.queue[k] : k \in 1..Len(scoring.queue)}
    /\ scoring.pc = "idle" => scoreLog.batch \subseteq scoreLog.attempted

\* The scoring call of the first comment failed; the sweep went on, scored
\* the comment after it, and is over.
C19_Witness ==
    /\ scoring.pc = "idle"
    /\ scoreLog.batch = 1..MaxComments
    /\ scoreLog.failed = {1}
    /\ redditComments[1].sentToAIAt = Null
    /\ redditComments[MaxComments].sentToAIAt # Null
    /\ redditComments[MaxComments].sentiment.set

----------------------------------------------------------------------------
(* Properties of the scheduled jobs *)

\* C21: for each scheduled sweep (content freshness, sentiment scoring) at
\* most one invocation is executing at any time: a schedule that fires while
\* the previous invocation of the same sweep is executing starts no work.
C21_AtMostOneInvocation ==
    \A j \in Jobs : Len(invocations[j]) <= 1

\* C35: the lock of a sweep is released when the sweep body ends, whether it
\* returned or threw: a step in which a callback of a locked job ends leaves
\* the flag down, the flag goes up only when a trigger starts a callback,
\* and a trigger that finds the flag down starts the sweep and is not
\* skipped.
C35_LockReleasedWhenBodyEnds ==
    [][\A j \in LockedJobs :
          /\ Len(invocations'[j]) < Len(invocations[j]) => ~isRunning'[j]
          /\ ~isRunning[j] /\ isRunning'[j]
                => Len(invocations'[j]) = Len(invocations[j]) + 1
          /\ ~isRunning[j] /\ cronLog' # cronLog /\ cronLog'.job = j
                => /\ ~cronLog'.skipped
                   /\ Len(invocations'[j]) = Len(invocations[j]) + 1]_vars

\* A trigger of a locked job was skipped, and the callback that held the
\* lock has ended since: the flag is down and the schedule is on.
C35_Witness ==
    \E j \in LockedJobs :
        /\ cronLog = [job |-> j, skipped |-> TRUE]
        /\ invocations[j] = <<>>
        /\ ~isRunning[j]
        /\ job[j]

\* C36: stopping the schedule of a sweep while a callback executes only
\* prevents new triggers: the status of the job reports running for as long
\* as the callback executes, and no second callback of the sweep overlaps
\* with it when the schedule is started again.
C36_StopLeavesInvocationAlone ==
    \A j \in LockedJobs :
        /\ Len(invocations[j]) > 0 => getJobStatus(j)
        /\ Len(invocations[j]) <= 1

\* C37: a comment whose sentToAIAt is set has a sentiment that is a number:
\* a reply that parses as JSON but lacks the field never marks the comment
\* as scored.
C37_ScoredHasSentiment ==
    \A i \in 1..Len(redditComments) :
        redditComments[i].sentToAIAt # Null => redditComments[i].sentiment.set

\* C38: the freshness sweep and the on-demand scrape of newly discovered
\* posts never have a content fetch of the same post in flight at once.
C38_OneFetchInFlightPerPost ==
    \A t, u \in Tasks :
        /\ t # u
        /\ scrapes[t].pc = "fetching"
        /\ scrapes[u].pc = "fetching"
        => CurrentPost(t) # CurrentPost(u)

----------------------------------------------------------------------------
(* Properties of the telemetry wrapper *)

\* C22: the outcome of a call wrapped by withLogging is the outcome of the
\* wrapped call: the caller gets the response it returned or the error it
\* threw, whatever fails while the log entry is built or written.
C22_OutcomeIsWrappedOutcome ==
    logging.pc = "returned" => logging.outcome = logging.settled

----------------------------------------------------------------------------
(* Properties of the scrapes of a post aged 30 hours *)

\* The sweep reads and filters the posts in this step.
SweepFilters ==
    scrapes["sweep"].pc = "idle" /\ lastFilter' # lastFilter

\* The sweep takes post p from its list in this step.
SweepTakes(p) ==
    scrapes["sweep"].pc = "next" /\ CurrentPost("sweep") = p

\* The sweep issues the request for the post it takes in this step.
SweepFetches ==
    scrapes["sweep"].pc = "next" /\ scrapes'["sweep"].pc = "fetching"

\* A sweep that filters while the post was never scraped selects it.
NeverScrapedSelected(p) ==
    (SweepFilters /\ postTime[p] # Null /\ scrapedAt[p] = Null)
        => \E i \in 1..Len(scrapes'["sweep"].queue) :
              scrapes'["sweep"].queue[i] = p

\* The sweep issues a request for the never scraped post it takes.
NeverScrapedFetched(p) ==
    (SweepTakes(p) /\ scrapedAt[p] = Null /\ scrapes'["sweep"] # scrapes["sweep"])
        => SweepFetches

\* A post the sweep has taken is not in its list any more once the request
\* has ended: there is no second request in the same sweep.
NoRetryInSweep(p) ==
    (scrapes["sweep"].pc = "fetching" /\ CurrentPost("sweep") = p
        /\ scrapes'["sweep"].pc \in {"idle", "next"})
        => \A i \in 1..Len(scrapes'["sweep"].queue) :
              scrapes'["sweep"].queue[i] # p

\* The sweep issues no request for a scraped post before the interval of its
\* age rule has passed since scrapedAt.
NoFetchWithinInterval(p) ==
    (SweepTakes(p) /\ SweepFetches /\ scrapedAt[p] # Null)
        => now - scrapedAt[p] >= MS_PER_HOUR

\* C23 as claimed: for a post aged 30 hours and never scraped, each freshness
\* sweep issues exactly one request, without retry, until a scrape succeeds
\* and sets lastScrapedAt; after that no sweep issues a request for it before
\* 1 hour has passed since lastScrapedAt.
C23_OncePerSweepThenHourly ==
    [][/\ NeverScrapedSelected(1)
       /\ NeverScrapedFetched(1)
       /\ NoRetryInSweep(1)
       /\ NoFetchWithinInterval(1)]_vars

----------------------------------------------------------------------------
(* Properties of the size of a scoring sweep *)

\* C24 as claimed: the number of comments one scoring sweep sends to the
\* scorer never exceeds a fixed batch limit, however many unscored comments
\* are stored.
C24_BatchWithinLimit ==
    /\ Cardinality(scoreLog.batch) <= take
    /\ Cardinality(scoreLog.attempted) <= take

----------------------------------------------------------------------------
(* Properties of the cadence of the freshness sweep *)

\* The sweep of a trigger finds post p, less than 1 day old, due.
FoundDueAtTrigger(p) ==
    (SweepFilters /\ postTime[p] # Null /\ now - postTime[p] < MS_PER_DAY)
        => p \in lastFilter'.due

\* Consecutive scrapes of post p are one period of the schedule apart, give
\* or take the time a sweep needs after its trigger.
ScrapesOnePeriodApart(p) ==
    (scrapedAt[p] # Null /\ scrapedAt'[p] # scrapedAt[p])
        => scrapedAt'[p] - scrapedAt[p] <= SchedulePeriod + MaxLatency

\* C25 as claimed: with the sweep triggered on its schedule and every fetch
\* succeeding, a post less than 1 day old is scraped every 10 minutes: no
\* trigger finds it not yet due because lastScrapedAt was recorded slightly
\* after the previous trigger.
C25_ScrapedEveryTenMinutes ==
    [][FoundDueAtTrigger(1) /\ ScrapesOnePeriodApart(1)]_vars

----------------------------------------------------------------------------
(* Termination of the scheduled sweeps *)

\* C26 as claimed: every fetch ends within a fixed timeout, with a response
\* or an error, so that every started sweep eventually finishes and releases
\* its lock, even when a remote endpoint or proxy never answers.
C26_StartedSweepFinishes ==
    isRunning["jobs/index.js"] ~> ~isRunning["jobs/index.js"]


\* C27: discovery is idempotent by ticker and by post external id: whatever
\* discovery operations run for the ticker, one after another or together,
\* there is never more than one stock row nor more than one row per post,
\* and every operation whose search answered ends having returned, with the
\* stock stored and every post of its result stored.
C27_DiscoveryIdempotent ==
    /\ stocks <= 1
    /\ \A d \in Discoveries :
         /\ discoveries[d].pc = "ended"
         /\ discoveries[d].outcome # "searchFailed"
         => /\ discoveries[d].outcome = "returned"
            /\ stocks = 1
            /\ \A i \in 1..Len(discoveries[d].result) :
                 postTime[discoveries[d].result[i]] # Null


\* The fields of a comment row that the extractor writes, and those that
\* the scorer writes.
ExtractorFields(row) ==
    <<row.redditPostId, row.body, row.upvotes, row.createdAtUtc,
      row.scrapedAt>>

ScorerFields(row) == <<row.sentiment, row.flagForDelete, row.sentToAIAt>>

\* The upsert of a scraped comment settles; the update of a scoring settles.
UpsertStep ==
    \E t \in Tasks : /\ scrapes[t].pc = "comments"
                     /\ scrapes[t].allComments # <<>>
                     /\ scrapes'[t] # scrapes[t]

ScorerStep == scoring.pc = "updating" /\ scoring' # scoring

\* C28: the extractor and the scorer write disjoint fields of a comment: the
\* upsert of a scrape leaves sentiment, delete flag and scoring time of
\* every stored comment as they were, and the update of the scorer leaves
\* body, vote score, creation time, scrape time and owning post of every
\* comment as they were, and adds no row.
C28_DisjointCommentFields ==
    [][ /\ UpsertStep =>
             \A i \in 1..Len(redditComments) :
                ScorerFields(redditComments'[i]) =
                   ScorerFields(redditComments[i])
        /\ ScorerStep =>
             /\ Len(redditComments') = Len(redditComments)
             /\ \A i \in 1..Len(redditComments) :
                   ExtractorFields(redditComments'[i]) =
                      ExtractorFields(redditComments[i]) ]_vars

\* A comment was scored, with a sentiment and the delete flag, and scraped
\* again later with another body.
C28_Witness ==
    \E i \in 1..Len(redditComments) :
        /\ redditComments[i].sentToAIAt # Null
        /\ redditComments[i].sentiment.set
        /\ redditComments[i].flagForDelete
        /\ redditComments[i].scrapedAt > redditComments[i].sentToAIAt
        /\ redditComments[i].body = Body("b", 10)


\* The probe of proxy p failed at start-up, nothing touched its record since
\* and more than the cooldown has passed.
ProbeFailureExpired(p) ==
    /\ proxyHealth[p].known
    /\ ~proxyHealth[p].healthy
    /\ now - proxyHealth[p].lastFailure > COOLDOWN_MS

\* C29: a proxy that failed the start-up validation probe is not excluded
\* for good: once the cooldown has passed since that failure, with no other
\* operation on the proxy, it is available again, and the
\* getNextProxyAgent() call that finds the cursor on it returns it from the
\* rotation loop, not from the fallback, its record left as it was.
C29_FailedProbeEligibleAfterCooldown ==
    [][ \A p \in Proxies :
          ProbeFailureExpired(p) =>
             /\ isProxyAvailable(p)
             /\ (/\ getNextProxyAgent
                 /\ Len(proxyList) > 0
                 /\ proxyList[currentIndex + 1] = p)
                => /\ lastNext'.proxy = p
                   /\ ~lastNext'.fallback
                   /\ proxyHealth'[p] = proxyHealth[p] ]_vars

\* Proxy 1 failed its probe and proxy 2 passed; after the cooldown a call
\* has returned proxy 1 from the rotation loop.  (Within the cooldown the
\* calls return proxy 2 only.)
C29_Witness ==
    /\ Len(proxyList) = 2
    /\ ProbeFailureExpired(1)
    /\ proxyHealth[2] = HealthyRecord
    /\ lastNext.called
    /\ lastNext.proxy = 1
    /\ ~lastNext.fallback
    /\ currentIndex = 1


\* scrapeSinglePost returns from the await of its request without going on
\* to the writes: the request failed, or the response held no post.
FetchGivesNothing ==
    \E t \in Tasks : /\ scrapes[t].pc = "fetching"
                     /\ scrapes'[t] # scrapes[t]
                     /\ scrapes'[t].pc # "content"

\* Such a return leaves the content rows, the comments and scrapedAt alone.
WritesNothing ==
    FetchGivesNothing =>
        /\ postContent' = postContent
        /\ redditComments' = redditComments
        /\ scrapedAt' = scrapedAt

\* The sweep is over, it called scrapeSinglePost on post p, which was due,
\* and p has not been scraped since the sweep filtered the posts: the
\* scrape of p gave nothing.
ScrapeGaveNothing(p) ==
    /\ scrapes["sweep"].pc = "idle"
    /\ lastFilter.at # Null
    /\ p \in lastFilter.due
    /\ p \in attempted
    /\ scrapedAt[p] = Null \/ scrapedAt[p] < lastFilter.at

\* The next sweep reads and filters the posts.
NextSweepFilters == scrapes["sweep"].pc = "idle" /\ lastFilter' # lastFilter

\* C30 as claimed: a scrape whose request fails or whose response holds no
\* post writes nothing (content row, comments and lastScrapedAt as they
\* were), and the post is due at the next sweep.
C30_NothingWrittenStillDue ==
    [][ /\ WritesNothing
        /\ \A p \in Posts :
              (ScrapeGaveNothing(p) /\ NextSweepFilters) =>
                  p \in lastFilter'.due ]_vars

\* C30 amended: such a scrape writes nothing, and the post is due at the
\* next sweep when it is then younger than MAX_POST_AGE_MS and either was
\* never scraped or is in the age bucket in which the sweep found it due.
C30_NothingWrittenDueInBucket ==
    [][ /\ WritesNothing
        /\ \A p \in Posts :
              (/\ ScrapeGaveNothing(p)
               /\ NextSweepFilters
               /\ now - postTime[p] < MAX_POST_AGE_MS
               /\ \/ scrapedAt[p] = Null
                  \/ Bucket(now - postTime[p]) =
                        Bucket(lastFilter.at - postTime[p])) =>
                  p \in lastFilter'.due ]_vars

\* Post 1 was scraped once; a later sweep found it due and its scrape gave
\* nothing: the content row and scrapedAt are those of the first scrape,
\* and at a later instant the post is due.
C30_Witness ==
    /\ ScrapeGaveNothing(1)
    /\ scrapedAt[1] # Null
    /\ postContent[1] = scrapedAt[1]
    /\ now > lastFilter.at
    /\ shouldScrapePost(Post(1))


\* The loop over allComments of task t handles a comment in this step.
CommentStep(t) ==
    /\ scrapes[t].pc = "comments"
    /\ scrapes[t].allComments # <<>>
    /\ scrapes'[t] # scrapes[t]

\* The loop of task t is over and the post is stamped in this step.
StampStep(t) ==
    /\ scrapes[t].pc = "comments"
    /\ scrapes[t].allComments = <<>>
    /\ scrapes'[t] # scrapes[t]

\* The table after the step holds comment c of task t as scraped.
StoredAfter(t, c) ==
    \E i \in 1..Len(redditComments') :
        /\ redditComments'[i].redditId = c.comment_id
        /\ redditComments'[i].body = c.body
        /\ redditComments'[i].upvotes = c.score
        /\ redditComments'[i].scrapedAt = scrapes[t].now

\* C31: when the storing of one comment of a post fails, that comment alone
\* is skipped: the table is left as it was and the loop goes on with the
\* comments that follow; every comment that passes the persist filter and
\* whose own write does not fail is stored, whatever failed before it; and
\* the step that ends the loop sets lastScrapedAt to the time of the scrape.
C31_OnlyFailedCommentSkipped ==
    [][ \A t \in Tasks :
          /\ (CommentStep(t) /\ commentLog'.failed) =>
                /\ redditComments' = redditComments
                /\ scrapes'[t].pc = "comments"
                /\ scrapes'[t].allComments = Tail(scrapes[t].allComments)
                /\ scrapes'[t].queue = scrapes[t].queue
          /\ (CommentStep(t) /\ PersistFilter(Head(scrapes[t].allComments))
                 /\ ~commentLog'.failed) =>
                StoredAfter(t, Head(scrapes[t].allComments))
          /\ StampStep(t) =>
                scrapedAt'[CurrentPost(t)] = scrapes[t].now ]_vars

\* The scrape of post 1 is over: the write of its first comment failed, its
\* second comment is stored and lastScrapedAt is the time of the scrape.
C31_Witness ==
    /\ scrapes["sweep"].pc = "idle"
    /\ scrapedAt[1] = 10 * MS_PER_MINUTE
    /\ RowsOf(1) = {}
    /\ \E i \in RowsOf(2) : redditComments[i].scrapedAt = scrapedAt[1]


\* C32: scoring results are persisted one comment at a time: a step writes
\* the table only when the loop holds the result of the comment it is at,
\* and then writes that comment alone; whatever a step does (a scoring call
\* or an update failing, the process exiting), the sentiment, flag and
\* scoredAt of every comment written before stay as they were; and the loop
\* never holds more than one result that is not written, so that a failure
\* or a stop loses at most one.
C32_ResultsPersistedOneAtATime ==
    [][ /\ \A i \in 1..Len(redditComments) :
              redditComments[i].sentToAIAt # Null =>
                 ScorerFields(redditComments'[i]) =
                    ScorerFields(redditComments[i])
        /\ redditComments' # redditComments =>
              /\ scoring.pc = "updating"
              /\ \A i \in 1..Len(redditComments) :
                    i # Head(scoring.queue) =>
                       redditComments'[i] = redditComments[i]
              /\ redditComments'[Head(scoring.queue)].sentToAIAt # Null
        /\ Cardinality(scoring'.analyzedComment) <= 1
        /\ scoring'.pc # "updating" => scoring'.analyzedComment = {} ]_vars

\* The first comment is scored and stored; the sweep stopped or failed at a
\* later comment, which is not scored, and is over.
C32_Witness ==
    /\ scoring.pc = "idle"
    /\ scoreLog.batch = 1..MaxComments
    /\ scoreLog.attempted # scoreLog.batch
    /\ redditComments[1].sentToAIAt # Null
    /\ redditComments[1].sentiment.set
    /\ redditComments[2].sentToAIAt = Null


----------------------------------------------------------------------------
(* Properties of the scoring procedure *)

\* C33: in the scoring procedure the bullish keyword occurrences add at
\* most +0.10 in total and the bearish ones subtract at most 0.10 in total,
\* and the final value is the value clamped to [-1, 1] and rounded to 2
\* decimals; base +0.90 with 6 bullish occurrences and 150 upvotes gives
\* 1.00, and a neutral base with no keyword and 3 upvotes gives 0.00.
C33_KeywordCapsAndClamp ==
    /\ procedure.increase >= 0 /\ procedure.increase <= 100
    /\ procedure.decrease >= 0 /\ procedure.decrease <= 100
    /\ procedure.step >= 2 =>
          /\ procedure.increase =
                (IF procedure.bullish >= 5 THEN 100
                 ELSE 20 * procedure.bullish)
          /\ procedure.decrease =
                (IF procedure.bearish >= 5 THEN 100
                 ELSE 20 * procedure.bearish)
    /\ procedure.step = 4 =>
          /\ procedure.sentiment >= -100 /\ procedure.sentiment <= 100
          /\ procedure.value > 1000 => procedure.sentiment = 100
          /\ procedure.value < -1000 => procedure.sentiment = -100
          /\ (procedure.value >= -1000 /\ procedure.value <= 1000) =>
                10 * procedure.sentiment = procedure.value
          /\ (procedure.base = 900 /\ procedure.bullish = 6
                 /\ procedure.bearish = 0 /\ procedure.votes = 150) =>
                procedure.sentiment = 100
          /\ (procedure.base = 0 /\ procedure.bullish = 0
                 /\ procedure.bearish = 0 /\ procedure.votes = 3) =>
                procedure.sentiment = 0

\* The procedure has run on base +0.90, 6 bullish occurrences and 150
\* upvotes: the increase was capped, the value passed 1 and was clamped.
C33_Witness ==
    /\ procedure.step = 4
    /\ procedure.base = 900
    /\ procedure.bullish = 6
    /\ procedure.bearish = 0
    /\ procedure.votes = 150
    /\ procedure.increase = 100
    /\ procedure.value = 1080
    /\ procedure.sentiment = 100

\* C34 as claimed: the vote table of step 3 is a function of the number of
\* upvotes or downvotes: for every number exactly one line holds, at the
\* ends 5/6, 20/21, 50/51 and 100 of the brackets too.
C34_OneBracketPerMagnitude ==
    procedure.step >= 3 =>
       Cardinality(VoteBrackets(Magnitude(procedure.votes))) = 1

\* C34 amended: for every number of upvotes or downvotes other than 100
\* exactly one line of the table holds, and the adjustment made is its size
\* (0, 0.02, 0.04, 0.05 or 0.08), at the ends 5/6, 20/21 and 50/51 too; for
\* 100 two lines hold, "51-100" and "100+", and the adjustment made is 0.05
\* or 0.08.
C34_OneBracketExceptAtHundred ==
    procedure.step >= 3 =>
       LET n == Magnitude(procedure.votes)
           sizes == {b.size : b \in VoteBrackets(n)}
       IN  /\ procedure.adjustment \in sizes
           /\ sizes \subseteq {0, 20, 40, 50, 80}
           /\ n # 100 => /\ Cardinality(VoteBrackets(n)) = 1
                         /\ n <= 5 => sizes = {0}
                         /\ (n >= 6 /\ n <= 20) => sizes = {20}
                         /\ (n >= 21 /\ n <= 50) => sizes = {40}
                         /\ (n >= 51 /\ n <= 99) => sizes = {50}
                         /\ n >= 101 => sizes = {80}
           /\ n = 100 => sizes = {50, 80}

\* Step 3 has run on a comment of 100 upvotes and added 0.05, where 0.08
\* holds as well.
C34_Witness ==
    /\ procedure.step = 3
    /\ procedure.votes = 100
    /\ procedure.adjustment = 50
    /\ 80 \in {b.size : b \in VoteBrackets(100)}

----------------------------------------------------------------------------
(* Properties of a run of the scoring script beside the scheduled sweep *)

\* The comment a loop sends to the scorer in this step, if it sends one.
Sends(before, after, c) ==
    /\ after.pc = "analyzing"
    /\ Head(after.queue) = c
    /\ before.pc = "analyzing" => Head(before.queue) # c

\* C39: a comment is scored at most once, also when a run of the script and
\* the scheduled sweep execute together: a loop sends a comment to the
\* scorer only while its sentToAIAt is null, and the sentiment, flag and
\* sentToAIAt of a scored comment are not written again.
C39_ScoredAtMostOnce ==
    [][\A c \in 1..Len(redditComments) :
          /\ Sends(scoring, scoring', c) \/ Sends(manual, manual', c)
                => redditComments'[c].sentToAIAt = Null
          /\ redditComments[c].sentToAIAt # Null
                => ScorerFields(redditComments'[c]) =
                      ScorerFields(redditComments[c])]_vars

----------------------------------------------------------------------------
(* Properties of the rotation cursor *)

\* C40: whenever the proxy list is not empty the rotation cursor is an index
\* of the list (0 <= currentIndex < proxyList.length), whatever sequence of
\* initializeProxies, getNextProxyAgent, getNextProxy and markProxyFailed
\* has run.
C40_CursorWithinList ==
    Len(proxyList) > 0 =>
        currentIndex >= 0 /\ currentIndex < Len(proxyList)

\* The list has several proxies, one of them marked failed, it was
\* initialized again, and the cursor has wrapped round after
\* getNextProxyAgent returned the last proxy of the list.
C40_Witness ==
    /\ Len(proxyList) > 1
    /\ validating > 0
    /\ \E i \in 1..Len(proxyList) :
          proxyHealth[proxyList[i]].known /\ ~proxyHealth[proxyList[i]].healthy
    /\ lastNext.called
    /\ lastNext.proxy = proxyList[Len(proxyList)]
    /\ currentIndex = 0

====
